---- MODULE Spec2Model ----
(***************************************************************************)
(* Origin Software Agent (streamlit_origin_agent-3.py): the chunker, the   *)
(* document store and its search, the credential store, the conversation   *)
(* store and the R2 backup synchronisation, as state machines.             *)
(*                                                                         *)
(* Text is a sequence of one-character strings.  Time is counted in days.  *)
(***************************************************************************)
EXTENDS Integers, Sequences, FiniteSets, TLC

VARIABLES
    sp,     \* split_text: the locals of one call (text, size, overlap, start, parts)
    sr,     \* search_chunks: the arguments and the rows of the last call
    fts5,   \* whether this SQLite build has the FTS5 module
    db,     \* the local files of DATA_DIR: path -> content, or NoFile
    remote, \* the R2 bucket: key -> object content, or NoObject
    r2cfg,  \* whether get_r2_config() finds every required setting
    now,    \* datetime.utcnow(), in days
    session,\* st.session_state.username, or NoUser
    pc,     \* where the script run stands
    tx,     \* index_folder: its locals and its open transaction
    last,   \* what the last operation returned and did
    mark,   \* history: the row counts at the last loss of the local files
    peer,   \* the local files of a second instance that uses the same bucket
    threads,\* the calls that run at once in separate script threads
    pm      \* process_message (streamlit_origin_agent.py): one prompt

vars == <<sp, sr, fts5, db, remote, r2cfg, now, session, pc, tx, last, mark,
          peer, threads, pm>>

NoFile == [nofile |-> TRUE]
USER_DB_PATH == "data/users.db"
DOC_DB_PATH  == "data/documents.db"
CHAT_DB_PATH == "data/chat.db"
DB_FILES == <<USER_DB_PATH, DOC_DB_PATH, CHAT_DB_PATH>>

Min(a, b) == IF a < b THEN a ELSE b

(***************************************************************************)
(* Bounds of the chunker's inputs.                                         *)
(***************************************************************************)
MaxLen  == 4      \* longest text given to split_text
MaxSize == 3      \* largest window size (and largest overlap) tried

Alphabet == {"a", "b", " "}

RECURSIVE TextsOfLen(_)
TextsOfLen(n) ==
    IF n = 0 THEN {<<>>}
    ELSE {Append(t, c) : t \in TextsOfLen(n - 1), c \in Alphabet}

Texts == UNION {TextsOfLen(n) : n \in 0..MaxLen}

(***************************************************************************)
(* str.strip(): leading and trailing whitespace removed.                   *)
(***************************************************************************)
IsSpace(c) == c \in {" ", "\n", "\t"}

RECURSIVE lstrip(_)
lstrip(s) ==
    IF s # <<>> /\ IsSpace(Head(s)) THEN lstrip(Tail(s)) ELSE s

RECURSIVE rstrip(_)
rstrip(s) ==
    IF s # <<>> /\ IsSpace(s[Len(s)]) THEN rstrip(SubSeq(s, 1, Len(s) - 1)) ELSE s

strip(s) == rstrip(lstrip(s))

(***************************************************************************)
(* split_text, lines 601-613.  text[start:end] with 0-based start is       *)
(* SubSeq(text, start + 1, end).                                           *)
(***************************************************************************)
\* loop_body with the next window starting where this one ends.
loop_body_no_overlap(text, size, overlap, start) ==
    LET end == Min(Len(text), start + size)
    IN  [part  |-> SubSeq(text, start + 1, end),
         start |-> end,
         brk   |-> end = Len(text)]

\* One pass of the while body (lines 606-612): the window, the next start
\* (clamped at 0) and whether the break is taken.
loop_body(text, size, overlap, start) ==
    LET end == Min(Len(text), start + size)
        nxt == end - overlap
    IN  [part  |-> SubSeq(text, start + 1, end),
         start |-> IF nxt < 0 THEN 0 ELSE nxt,
         brk   |-> end = Len(text)]

\* Line 613: [p.strip() for p in parts if p.strip()]
strip_parts(parts) ==
    LET kept == SelectSeq(parts, LAMBDA p : strip(p) # <<>>)
    IN  [i \in 1..Len(kept) |-> strip(kept[i])]

\* The whole call, for callers that use its result (size > overlap).
RECURSIVE split_loop(_, _, _, _, _)
split_loop(text, size, overlap, start, parts) ==
    IF ~(start < Len(text)) THEN parts
    ELSE LET b == loop_body(text, size, overlap, start)
         IN  IF b.brk THEN Append(parts, b.part)
             ELSE split_loop(text, size, overlap, b.start, Append(parts, b.part))

split_text(text, size, overlap) == strip_parts(split_loop(text, size, overlap, 0, <<>>))

NoSplit  == [pc |-> "none"]
NoSearch == [pc |-> "none"]
NoFiles  == [f \in {USER_DB_PATH, DOC_DB_PATH, CHAT_DB_PATH} |-> NoFile]
NoObject == [noobject |-> TRUE]
NoUser   == "NoUser"
NoTx     == [pc |-> "none"]
NoOp     == [op |-> "none"]
NoMark   == [phase |-> "none"]
NoThreads == [th \in {} |-> 0]
NoPrompt == [pc |-> "none"]

\* os.path.basename (lines 153, 175).
basename(path) ==
    CASE path = USER_DB_PATH -> "users.db"
      [] path = DOC_DB_PATH  -> "documents.db"
      [] path = CHAT_DB_PATH -> "chat.db"

\* r2_key, lines 134-138: the prefix is "origin-agent/" with or without a client.
r2_key(filename) == <<"origin-agent/", filename>>

R2Keys == {r2_key(basename(DB_FILES[i])) : i \in 1..Len(DB_FILES)}
NoObjects == [k \in R2Keys |-> NoObject]

\* The variables a specification of one component leaves alone.
StoreQuiet ==
    /\ remote = NoObjects /\ r2cfg = FALSE /\ now = 0 /\ session = NoUser
    /\ pc = "off" /\ tx = NoTx /\ last = NoOp /\ mark = NoMark
    /\ peer = NoFiles /\ threads = NoThreads /\ pm = NoPrompt

app == <<sr, fts5, db, remote, r2cfg, now, session, pc, tx, last, mark,
         peer, threads, pm>>

\* The call as a process: lines 602-604, then one action per loop pass.
SplitInit ==
    /\ sr = NoSearch /\ fts5 = TRUE /\ db = NoFiles /\ StoreQuiet
    /\ \E text \in Texts, size \in 1..MaxSize, overlap \in 0..MaxSize :
        sp = [pc |-> "loop", text |-> text, size |-> size, overlap |-> overlap,
              start |-> 0, parts |-> <<>>, out |-> <<>>]

\* A pass of the loop (lines 605-612).  A call whose window does not advance
\* never leaves the loop; the model stops following it after Len(text) + 1
\* passes, more than any advancing call makes.
SplitIter ==
    /\ sp.pc = "loop"
    /\ sp.start < Len(sp.text)
    /\ Len(sp.parts) <= Len(sp.text)
    /\ LET b == loop_body(sp.text, sp.size, sp.overlap, sp.start)
       IN  sp' = [sp EXCEPT !.parts = Append(@, b.part),
                            !.start = b.start,
                            !.pc    = IF b.brk THEN "return" ELSE "loop"]
    /\ UNCHANGED app

\* The while condition fails (line 605): only for the empty text.
SplitExit ==
    /\ sp.pc = "loop"
    /\ ~(sp.start < Len(sp.text))
    /\ sp' = [sp EXCEPT !.pc = "return"]
    /\ UNCHANGED app

\* Line 613.
SplitReturn ==
    /\ sp.pc = "return"
    /\ sp' = [sp EXCEPT !.pc = "done", !.out = strip_parts(sp.parts)]
    /\ UNCHANGED app

NextChunk == SplitIter \/ SplitExit \/ SplitReturn

SpecChunk == SplitInit /\ [][NextChunk]_vars

(***************************************************************************)
(* documents.db as search_chunks reads it (tables of lines 551-578): a     *)
(* record of three sets of rows, documents, chunks and chunks_fts.         *)
(***************************************************************************)
MaxChunks   == 3      \* most chunk rows in a corpus that is searched
MaxQueryLen == 2      \* longest query given to search_chunks
MaxTopK     == 2      \* largest top_k given to search_chunks

ChunkTexts == {<<"a">>, <<"b", "a">>, <<"a", " ", "b">>, <<"a", " ", "a">>}
QueryAlphabet == {"a", "A", "b", " ", "%"}

RECURSIVE QueriesOfLen(_)
QueriesOfLen(n) ==
    IF n = 0 THEN {<<>>}
    ELSE {Append(q, c) : q \in QueriesOfLen(n - 1), c \in QueryAlphabet}

Queries == UNION {QueriesOfLen(n) : n \in 0..MaxQueryLen}

\* ASCII case folding, as LIKE and the FTS5 tokenizer apply it.
Fold(c) == IF c = "A" THEN "a" ELSE IF c = "B" THEN "b" ELSE c

IsAlnum(c) == c \in {"a", "b", "A", "B"}

\* text LIKE pattern: % matches any run of characters, _ any one character,
\* letters match without regard to case.
RECURSIVE like(_, _)
like(text, pattern) ==
    IF pattern = <<>> THEN text = <<>>
    ELSE IF Head(pattern) = "%"
         THEN \E k \in 0..Len(text) : like(SubSeq(text, k + 1, Len(text)), Tail(pattern))
    ELSE /\ text # <<>>
         /\ Head(pattern) = "_" \/ Fold(Head(pattern)) = Fold(Head(text))
         /\ like(Tail(text), Tail(pattern))

\* like_pattern without the leading wildcard.
like_pattern_prefix_only(query) == query \o <<"%">>

\* Line 683: like = f"%{query}%"
like_pattern(query) == <<"%">> \o query \o <<"%">>

\* The tokens of a text, in order: maximal runs of letters, case folded
\* (the porter tokenizer of line 574 leaves tokens this short unstemmed).
RECURSIVE token_seq(_, _, _)
token_seq(s, cur, acc) ==
    IF s = <<>> THEN (IF cur = <<>> THEN acc ELSE Append(acc, cur))
    ELSE IF IsAlnum(Head(s)) THEN token_seq(Tail(s), Append(cur, Fold(Head(s))), acc)
    ELSE token_seq(Tail(s), <<>>, IF cur = <<>> THEN acc ELSE Append(acc, cur))

tokens(s) == LET ts == token_seq(s, <<>>, <<>>) IN {ts[i] : i \in 1..Len(ts)}

\* An FTS5 query of bare words parses; any other character is a syntax
\* error, raised as sqlite3.OperationalError.
fts_syntax_ok(query) == \A i \in 1..Len(query) : IsAlnum(query[i]) \/ IsSpace(query[i])

\* chunks_fts MATCH ? (line 675): every word of the query is a token of the row.
fts_match(text, query) == tokens(query) \subseteq tokens(text)

\* bm25(chunks_fts) (lines 671, 676): the engine's cost of a row for a query,
\* negative and lower the more the query's words occur in the row.
bm25(text, query) ==
    LET ts == token_seq(text, <<>>, <<>>)
    IN  0 - Cardinality({i \in 1..Len(ts) : ts[i] \in tokens(query)})

\* LIMIT ? (lines 676, 688): a negative limit is no limit.
limit(k, n) == IF k < 0 THEN n ELSE Min(k, n)

\* order_by with the order turned round.
order_by_desc(cost_a, cost_b) == cost_a >= cost_b

\* ORDER BY bm25(chunks_fts) (line 676): ascending cost.
order_by(cost_a, cost_b) == cost_a <= cost_b

\* The sequences of n distinct members of S.
Picks(S, n) == {s \in [1..n -> S] : \A i, j \in 1..n : i # j => s[i] # s[j]}

\* c JOIN d ON d.id = c.document_id (lines 673-674, 686).
chunk_join(docdb) ==
    {j \in [c : docdb.chunks, d : docdb.documents] : j.d.id = j.c.document_id}

\* Lines 670-678: the rows the ranked query can return, or the error raised.
ranked_query(docdb, has_fts5, query, top_k) ==
    IF ~has_fts5 \/ ~fts_syntax_ok(query) THEN [err |-> TRUE, rows |-> {}]
    ELSE LET hits == {j \in chunk_join(docdb) :
                        \E f \in docdb.chunks_fts :
                            f.rowid = j.c.id /\ fts_match(f.text, query)}
             cost(j) == bm25((CHOOSE f \in docdb.chunks_fts : f.rowid = j.c.id).text, query)
             n == limit(top_k, Cardinality(hits))
         IN  [err  |-> FALSE,
              rows |-> {[i \in 1..n |-> [text |-> s[i].c.text,
                                         document_id |-> s[i].c.document_id,
                                         filename |-> s[i].d.filename,
                                         score |-> cost(s[i])]] :
                          s \in {s \in Picks(hits, n) :
                                   /\ \A i, j \in 1..n : i < j => order_by(cost(s[i]), cost(s[j]))
                                   /\ \A x \in hits : (\A i \in 1..n : s[i] # x) =>
                                        \A i \in 1..n : order_by(cost(s[i]), cost(x))}}]

\* Lines 683-690: the rows the substring query can return; SQL fixes no
\* order and no choice among the matching rows beyond the limit.
like_query(docdb, query, top_k) ==
    LET hits == {j \in chunk_join(docdb) : like(j.c.text, like_pattern(query))}
        n == limit(top_k, Cardinality(hits))
    IN  {[i \in 1..n |-> [text |-> s[i].c.text,
                          document_id |-> s[i].c.document_id,
                          filename |-> s[i].d.filename,
                          score |-> 0]] : s \in Picks(hits, n)}

\* search_chunks with "if rows:" of line 679 left out: what the ranked query
\* fetched is returned, rows or none.
search_chunks_ranked_final(docdb, has_fts5, query0, top_k) ==
    LET query == strip(query0)
        r == ranked_query(docdb, has_fts5, query, top_k)
    IN  IF query = <<>> THEN {[rows |-> <<>>, via |-> "empty", err |-> FALSE]}
        ELSE IF r.err
        THEN {[rows |-> rows, via |-> "fallback", err |-> TRUE] :
                 rows \in like_query(docdb, query, top_k)}
        ELSE {[rows |-> rows, via |-> "ranked", err |-> FALSE] : rows \in r.rows}

\* search_chunks, lines 663-690: every outcome of one call.  via names the
\* return statement taken, err whether the ranked query raised.
search_chunks(docdb, has_fts5, query0, top_k) ==
    LET query == strip(query0)
        r == ranked_query(docdb, has_fts5, query, top_k)
    IN  IF query = <<>> THEN {[rows |-> <<>>, via |-> "empty", err |-> FALSE]}
        ELSE {[rows |-> rows, via |-> "ranked", err |-> FALSE] : rows \in r.rows \ {<<>>}}
             \cup (IF r.err \/ <<>> \in r.rows
                   THEN {[rows |-> rows, via |-> "fallback", err |-> r.err] :
                            rows \in like_query(docdb, query, top_k)}
                   ELSE {})

\* A corpus of n chunks as ingestion leaves it: ids count from 1, two chunks
\* to a document, one chunks_fts row per chunk when FTS5 is there.
Corpus(texts, has_fts5) ==
    LET n == Len(texts)
        doc(i) == ((i - 1) \div 2) + 1
    IN  [documents  |-> {[id |-> doc(i), filename |-> <<"doc", doc(i)>>,
                          path |-> <<"docs/origin", <<"doc", doc(i)>>>>,
                          n_pages |-> 1, added_at |-> 0] : i \in 1..n},
         chunks     |-> {[id |-> i, document_id |-> doc(i),
                          chunk_index |-> (i - 1) % 2, text |-> texts[i]] : i \in 1..n},
         chunks_fts |-> IF has_fts5 THEN {[rowid |-> i, text |-> texts[i]] : i \in 1..n}
                        ELSE {}]

SearchInit ==
    /\ sp = NoSplit /\ sr = NoSearch /\ StoreQuiet
    /\ fts5 \in BOOLEAN
    /\ \E n \in 1..MaxChunks : \E texts \in [1..n -> ChunkTexts] :
          db = [NoFiles EXCEPT ![DOC_DB_PATH] = Corpus(texts, fts5)]

\* One call search_chunks(query, top_k).
Search ==
    /\ sr.pc = "none"
    /\ \E query \in Queries, top_k \in 0..MaxTopK :
       \E res \in search_chunks(db[DOC_DB_PATH], fts5, query, top_k) :
          sr' = [pc |-> "done", query |-> query, top_k |-> top_k,
                 rows |-> res.rows, via |-> res.via, err |-> res.err]
    /\ UNCHANGED <<sp, fts5, db, remote, r2cfg, now, session, pc, tx, last, mark,
                   peer, threads, pm>>

NextSearch == Search

SpecSearch == SearchInit /\ [][NextSearch]_vars

(***************************************************************************)
(* Cloudflare R2 storage, lines 46-193.                                    *)
(*                                                                         *)
(* What the network does to one transfer is a scenario: the outcome of     *)
(* each request the client sends for it, "answer" (the store serves the    *)
(* request), "denied" (a credential failure) or "conn" (a connectivity     *)
(* failure).  The client of lines 96-108 retries a connectivity failure.   *)
(***************************************************************************)
max_attempts == 3      \* retries={'max_attempts': 3, 'mode': 'standard'}

Persist == [i \in 1..(1 + max_attempts) |-> "conn"]
DownScenarios == {<<"answer">>, <<"denied">>, <<"conn", "answer">>, Persist}
UpScenarios   == {<<"answer">>, <<"denied">>, Persist}

\* The requests the client sends for one transfer: it stops at the first
\* outcome that is not a connectivity failure, or when the retries are spent.
request_count(s) ==
    LET ends == {i \in 1..Len(s) : s[i] # "conn"}
        first == IF ends = {} THEN Len(s)
                 ELSE CHOOSE i \in ends : \A j \in ends : i <= j
    IN  Min(first, 1 + max_attempts)

final_outcome(s) == s[request_count(s)]

\* get_r2_client, lines 85-132: a client, or None when nothing is configured
\* or the connection test fails; no exception leaves it.
get_r2_client(reachable) == r2cfg /\ reachable

\* backup_file without the except clause of line 156.
backup_file_uncaught(acc, db_file, loc, s) ==
    IF acc.raised \/ loc[db_file] = NoFile THEN acc
    ELSE IF final_outcome(s) = "answer"
         THEN [acc EXCEPT !.remote[r2_key(basename(db_file))] = loc[db_file],
                          !.uploaded = @ \cup {db_file}]
    ELSE [acc EXCEPT !.ret = FALSE, !.raised = TRUE]

\* backup_file with an upload that leaves an object already stored as it is.
backup_file_keep_old(acc, db_file, loc, s) ==
    LET key == r2_key(basename(db_file))
    IN  IF acc.raised \/ loc[db_file] = NoFile THEN acc
        ELSE IF final_outcome(s) = "answer"
             THEN [acc EXCEPT !.remote[key] = IF @ = NoObject THEN loc[db_file] ELSE @,
                              !.uploaded = @ \cup {db_file}]
        ELSE [acc EXCEPT !.ret = FALSE]

\* Lines 151-158 for one db_file: upload when the file exists, the failure
\* caught and turned into success = False.
backup_file(acc, db_file, loc, s) ==
    IF acc.raised \/ loc[db_file] = NoFile THEN acc
    ELSE IF final_outcome(s) = "answer"
         THEN [acc EXCEPT !.remote[r2_key(basename(db_file))] = loc[db_file],
                          !.uploaded = @ \cup {db_file}]
    ELSE [acc EXCEPT !.ret = FALSE]

RECURSIVE backup_loop(_, _, _, _)
backup_loop(acc, i, loc, net) ==
    IF i > Len(DB_FILES) THEN acc
    ELSE backup_loop(backup_file(acc, DB_FILES[i], loc, net.up[DB_FILES[i]]),
                     i + 1, loc, net)

\* backup_to_r2, lines 140-160.  ret is the value returned, raised whether an
\* exception left the call, uploaded the files that reached the bucket.
backup_to_r2(loc, rem, net) ==
    IF ~get_r2_client(net.c2)
    THEN [ret |-> FALSE, raised |-> FALSE, remote |-> rem, uploaded |-> {}]
    ELSE backup_loop([ret |-> TRUE, raised |-> FALSE, remote |-> rem, uploaded |-> {}],
                     1, loc, net)

\* sync_user_data, lines 190-193.
sync_user_data(loc, rem, net) ==
    IF get_r2_client(net.c1) THEN backup_to_r2(loc, rem, net)
    ELSE [ret |-> FALSE, raised |-> FALSE, remote |-> rem, uploaded |-> {}]

\* restore_file without the os.path.exists test of line 173.
restore_file_always(acc, db_file, rem, s) ==
    LET key == r2_key(basename(db_file))
        got == final_outcome(s) = "answer" /\ rem[key] # NoObject
    IN  [acc EXCEPT !.calls[db_file] = 1,
                    !.requests[db_file] = request_count(s),
                    !.db[db_file] = IF got THEN rem[key] ELSE @,
                    !.ret = IF got THEN TRUE ELSE @]

\* Lines 173-186 for one db_file: one download_file call when the file is
\* absent locally, every failure caught.
restore_file(acc, db_file, rem, s) ==
    IF acc.db[db_file] # NoFile THEN acc
    ELSE LET key == r2_key(basename(db_file))
             got == final_outcome(s) = "answer" /\ rem[key] # NoObject
         IN  [acc EXCEPT !.calls[db_file] = 1,
                         !.requests[db_file] = request_count(s),
                         !.db[db_file] = IF got THEN rem[key] ELSE @,
                         !.ret = IF got THEN TRUE ELSE @]

RECURSIVE restore_loop(_, _, _, _)
restore_loop(acc, i, rem, net) ==
    IF i > Len(DB_FILES) THEN acc
    ELSE restore_loop(restore_file(acc, DB_FILES[i], rem, net.down[DB_FILES[i]]),
                      i + 1, rem, net)

\* restore_from_r2, lines 162-188.  calls counts the download_file calls per
\* file, requests the requests the client sent for them.
restore_from_r2(loc, rem, net) ==
    LET none == [f \in DOMAIN loc |-> 0]
        acc0 == [ret |-> FALSE, raised |-> FALSE, db |-> loc,
                 calls |-> none, requests |-> none]
    IN  IF ~get_r2_client(net.c) THEN acc0 ELSE restore_loop(acc0, 1, rem, net)

\* The networks an operation can meet.  A scenario is drawn only for a
\* transfer that can take place.
AllUp == [f \in DOMAIN NoFiles |-> <<"answer">>]
OkNet == [c1 |-> TRUE, c2 |-> TRUE, up |-> AllUp]
RestoreNets(loc) ==
    {[c |-> TRUE, down |-> d] :
        d \in {d \in [DOMAIN loc -> DownScenarios] :
                 \A f \in DOMAIN loc : loc[f] # NoFile => d[f] = <<"answer">>}}
        \cup {[c |-> FALSE, down |-> AllUp]}

(***************************************************************************)
(* Authentication, lines 231-334.  users.db is a record with the set of    *)
(* rows of its table users.                                                *)
(***************************************************************************)
NULL == 0 - 1           \* SQL NULL in a column of day counts

Usernames == {"admin", "alice"}
Passwords == {"admin123", "pw", ""}
Months    == {1, 14}     \* the months of access given to add_user
TickDays  == 400         \* the days between two looks at the clock
MaxNow    == 400         \* the clock stops here

\* hash_password, lines 231-233: SHA-256, taken to be free of collisions.
hash_password(password) == <<"sha256", password>>

\* The id SQLite gives the next row of an INTEGER PRIMARY KEY table.
next_id(rows) ==
    IF rows = {} THEN 1
    ELSE 1 + (CHOOSE m \in {r.id : r \in rows} : \A r \in rows : r.id <= m)

users_table(loc) == IF loc[USER_DB_PATH] = NoFile THEN {} ELSE loc[USER_DB_PATH].users

\* The INSERT of lines 256-261 and 323-327.
user_row(id, username, password, email, t, expires) ==
    [id |-> id, username |-> username, password_hash |-> hash_password(password),
     email |-> email, created_at |-> t, last_login |-> NULL, active |-> 1,
     subscription_expires |-> expires]

\* create_user_db with INSERT OR REPLACE in place of the SELECT of line 253.
create_user_db_replace(loc, rem, t, net) ==
    LET rows == {u \in users_table(loc) : u.username # "admin"}
        new == rows \cup {user_row(next_id(rows), "admin", "admin123",
                                   "admin@origin.com", t, t + 365)}
        loc2 == [loc EXCEPT ![USER_DB_PATH] = [users |-> new]]
        s == sync_user_data(loc2, rem, net)
    IN  [db |-> loc2, remote |-> s.remote, uploaded |-> s.uploaded, sync |-> TRUE,
         raised |-> s.raised, ret |-> "None", via |-> "ok", msg |-> "none"]

\* create_user_db, lines 235-266.
create_user_db(loc, rem, t, net) ==
    LET rows == users_table(loc)
        new == IF \E u \in rows : u.username = "admin" THEN rows
               ELSE rows \cup {user_row(next_id(rows), "admin", "admin123",
                                        "admin@origin.com", t, t + 365)}
        loc2 == [loc EXCEPT ![USER_DB_PATH] = [users |-> new]]
        s == sync_user_data(loc2, rem, net)
    IN  [db |-> loc2, remote |-> s.remote, uploaded |-> s.uploaded, sync |-> TRUE,
         raised |-> s.raised, ret |-> "None", via |-> "ok", msg |-> "none"]

\* validate_user without the tests of lines 291 and 296.
validate_user_no_gate(loc, rem, t, username, password, net) ==
    LET rows == users_table(loc)
        same(r) == [db |-> loc, remote |-> rem, uploaded |-> {}, sync |-> FALSE, raised |-> FALSE, ret |-> FALSE,
                    via |-> r, msg |-> "none"]
    IN  IF username = "" \/ password = "" THEN same("empty")
        ELSE IF ~\E u \in rows : u.username = username THEN same("NotFound")
        ELSE LET u == CHOOSE u \in rows : u.username = username
                 loc2 == [loc EXCEPT ![USER_DB_PATH] =
                             [users |-> (rows \ {u}) \cup {[u EXCEPT !.last_login = t]}]]
                 s == sync_user_data(loc2, rem, net)
             IN  IF hash_password(password) # u.password_hash THEN same("BadPassword")
                 ELSE [db |-> loc2, remote |-> s.remote, uploaded |-> s.uploaded, sync |-> TRUE,
                       raised |-> s.raised, ret |-> TRUE,
                       via |-> "ok", msg |-> "none"]

\* validate_user with the UPDATE of line 303 and the backup made as soon as
\* the account is found.
validate_user_update_first(loc, rem, t, username, password, net) ==
    LET rows == users_table(loc)
        same(r, m) == [db |-> loc, remote |-> rem, uploaded |-> {}, sync |-> FALSE,
                       raised |-> FALSE, ret |-> FALSE, via |-> r, msg |-> m]
    IN  IF username = "" \/ password = "" THEN same("empty", "none")
        ELSE IF ~\E u \in rows : u.username = username THEN same("NotFound", "none")
        ELSE LET u == CHOOSE u \in rows : u.username = username
                 loc2 == [loc EXCEPT ![USER_DB_PATH] =
                             [users |-> (rows \ {u}) \cup {[u EXCEPT !.last_login = t]}]]
                 s == sync_user_data(loc2, rem, net)
                 out(ok, r, m) == [db |-> loc2, remote |-> s.remote, uploaded |-> s.uploaded,
                                   sync |-> TRUE, raised |-> s.raised, ret |-> ok,
                                   via |-> r, msg |-> m]
             IN  IF hash_password(password) # u.password_hash
                 THEN out(FALSE, "BadPassword", "none")
                 ELSE IF u.active = 0
                 THEN out(FALSE, "Inactive", "Usuario desativado. Entre em contato com o suporte.")
                 ELSE IF u.subscription_expires # NULL /\ t > u.subscription_expires
                 THEN out(FALSE, "Expired", "Assinatura expirada. Renove seu acesso.")
                 ELSE out(TRUE, "ok", "none")

\* validate_user, lines 268-312.  via names the return statement taken, msg
\* the text given to st.error.
validate_user(loc, rem, t, username, password, net) ==
    LET rows == users_table(loc)
        same(r, m) == [db |-> loc, remote |-> rem, uploaded |-> {}, sync |-> FALSE, raised |-> FALSE, ret |-> FALSE,
                       via |-> r, msg |-> m]
    IN  IF username = "" \/ password = "" THEN same("empty", "none")
        ELSE IF ~\E u \in rows : u.username = username THEN same("NotFound", "none")
        ELSE LET u == CHOOSE u \in rows : u.username = username
                 loc2 == [loc EXCEPT ![USER_DB_PATH] =
                             [users |-> (rows \ {u}) \cup {[u EXCEPT !.last_login = t]}]]
                 s == sync_user_data(loc2, rem, net)
             IN  IF hash_password(password) # u.password_hash
                 THEN same("BadPassword", "none")
                 ELSE IF u.active = 0
                 THEN same("Inactive", "Usuario desativado. Entre em contato com o suporte.")
                 ELSE IF u.subscription_expires # NULL /\ t > u.subscription_expires
                 THEN same("Expired", "Assinatura expirada. Renove seu acesso.")
                 ELSE [db |-> loc2, remote |-> s.remote, uploaded |-> s.uploaded, sync |-> TRUE,
                       raised |-> s.raised, ret |-> TRUE,
                       via |-> "ok", msg |-> "none"]

\* add_user without the test of line 316.
add_user_unguarded(loc, rem, t, sess, username, password, email, months, net) ==
    LET rows == users_table(loc)
        same(r) == [db |-> loc, remote |-> rem, uploaded |-> {}, sync |-> FALSE, raised |-> FALSE, ret |-> FALSE,
                    via |-> r, msg |-> "none"]
        loc2 == [loc EXCEPT ![USER_DB_PATH] =
                    [users |-> rows \cup {user_row(next_id(rows), username, password,
                                                    email, t, t + 30 * months)}]]
        s == sync_user_data(loc2, rem, net)
    IN  IF \E u \in rows : u.username = username THEN same("conflict")
        ELSE [db |-> loc2, remote |-> s.remote, uploaded |-> s.uploaded, sync |-> TRUE,
              raised |-> s.raised, ret |-> TRUE, via |-> "ok", msg |-> "none"]

\* add_user, lines 314-334.
add_user(loc, rem, t, sess, username, password, email, months, net) ==
    LET rows == users_table(loc)
        same(r) == [db |-> loc, remote |-> rem, uploaded |-> {}, sync |-> FALSE, raised |-> FALSE, ret |-> FALSE,
                    via |-> r, msg |-> "none"]
        loc2 == [loc EXCEPT ![USER_DB_PATH] =
                    [users |-> rows \cup {user_row(next_id(rows), username, password,
                                                    email, t, t + 30 * months)}]]
        s == sync_user_data(loc2, rem, net)
    IN  IF sess = NoUser \/ sess # "admin" THEN same("denied")
        ELSE IF \E u \in rows : u.username = username THEN same("conflict")
        ELSE [db |-> loc2, remote |-> s.remote, uploaded |-> s.uploaded, sync |-> TRUE,
              raised |-> s.raised, ret |-> TRUE, via |-> "ok", msg |-> "none"]

(***************************************************************************)
(* The document store, lines 601-661, and the conversation store, lines    *)
(* 692-711.                                                                *)
(***************************************************************************)
CHUNK_SIZE    == 1200
CHUNK_OVERLAP == 150

Rep(c, n) == [i \in 1..n |-> c]

\* The PDF files on disk and what extract_text_from_pdf (lines 615-622)
\* returns for each: a short text, a text of three windows, and a scan with
\* no text layer.
PdfA    == "docs/origin/intro/a.pdf"
PdfBig  == "docs/origin/sub/big.pdf"
PdfScan == "docs/scans/scan.pdf"

extract_text_from_pdf(pdf_path) ==
    CASE pdf_path = PdfA    -> [text |-> <<"a", "b", " ">>, n_pages |-> 1]
      [] pdf_path = PdfBig  -> [text |-> Rep("a", 3000), n_pages |-> 2]
      [] pdf_path = PdfScan -> [text |-> <<" ", "\n", " ">>, n_pages |-> 3]

\* os.path.basename (line 634).
pdf_basename(pdf_path) ==
    CASE pdf_path = PdfA    -> "a.pdf"
      [] pdf_path = PdfBig  -> "big.pdf"
      [] pdf_path = PdfScan -> "scan.pdf"

\* Path(folder).rglob("*.pdf") (line 632); Missing is no directory (line 626).
Missing == "docs/none"
Folders == {"docs", "docs/origin", "docs/origin/intro", "docs/origin/sub"}
rglob(folder) ==
    CASE folder = "docs"            -> {PdfA, PdfBig, PdfScan}
      [] folder = "docs/origin"     -> {PdfA, PdfBig}
      [] folder = "docs/origin/intro" -> {PdfA}
      [] folder = "docs/origin/sub" -> {PdfBig}
      [] OTHER                      -> {}

\* rglob fixes no order: every order of the files.
Orders(S) == Picks(S, Cardinality(S))

EmptyDocDb == [documents |-> {}, chunks |-> {}, chunks_fts |-> {}]
EmptyChatDb == [conversations |-> {}, messages |-> {}]

\* already_indexed without the SELECT of line 635.
already_indexed_never(docdb, path) == FALSE

\* Lines 635-637: the path already has a documents row.
already_indexed(docdb, path) == \E d \in docdb.documents : d.path = path

\* rollback with the writes of the open transaction kept.
rollback_keeps_writes(committed, work) == work

\* Leaving the with block of line 630 by an exception, or the process dying
\* before line 657: the open transaction is rolled back.
rollback(committed, work) == committed

\* Lines 634-645 for one path: skip it, or insert its documents row and
\* chunk its text.  tx.work is the database as the open transaction sees it.
index_file(t, path) ==
    LET x == extract_text_from_pdf(path)
        id == next_id(t.work.documents)
    IN  IF already_indexed(t.work, path) \/ strip(x.text) = <<>>
        THEN [t EXCEPT !.i = @ + 1]
        ELSE [t EXCEPT !.pc = "chunk",
                       !.work.documents = @ \cup
                           {[id |-> id, filename |-> pdf_basename(path), path |-> path,
                             n_pages |-> x.n_pages, added_at |-> t.at]},
                       !.doc_id = id,
                       !.todo = split_text(x.text, CHUNK_SIZE, CHUNK_OVERLAP),
                       !.k = 0]

\* Lines 646-656 for one chunk: its chunks row, its chunks_fts row unless
\* that insert raises OperationalError, and after the last chunk new_docs.
index_chunk(t, has_fts5) ==
    LET id == next_id(t.work.chunks)
        chunk == t.todo[t.k + 1]
        last_one == t.k + 1 = Len(t.todo)
    IN  [t EXCEPT !.work.chunks = @ \cup
                      {[id |-> id, document_id |-> t.doc_id,
                        chunk_index |-> t.k, text |-> chunk]},
                  !.work.chunks_fts = IF has_fts5
                                      THEN @ \cup {[rowid |-> id, text |-> chunk]}
                                      ELSE @,
                  !.new_chunks = @ + 1,
                  !.k = @ + 1,
                  !.new_docs = IF last_one THEN @ + 1 ELSE @,
                  !.i = IF last_one THEN @ + 1 ELSE @,
                  !.pc = IF last_one THEN "file" ELSE "chunk"]

\* Lines 657-661 of index_folder: the commit of the transaction, the backup,
\* the counts returned.
index_commit(loc, rem, t, net) ==
    LET loc2 == [loc EXCEPT ![DOC_DB_PATH] = t.work]
        s == backup_to_r2(loc2, rem, net)
    IN  [db |-> loc2, remote |-> s.remote, uploaded |-> s.uploaded, sync |-> TRUE,
         raised |-> s.raised, ret |-> <<t.new_docs, t.new_chunks>>,
         via |-> "ok", msg |-> "none"]

\* start_conversation, lines 692-702.
start_conversation(loc, rem, t, title, net) ==
    LET chat == loc[CHAT_DB_PATH]
        id == next_id(chat.conversations)
        loc2 == [loc EXCEPT ![CHAT_DB_PATH].conversations =
                    @ \cup {[id |-> id, title |-> title, created_at |-> t]}]
        s == backup_to_r2(loc2, rem, net)
    IN  [db |-> loc2, remote |-> s.remote, uploaded |-> s.uploaded, sync |-> TRUE,
         raised |-> s.raised, ret |-> id, via |-> "ok", msg |-> "none"]

\* add_message, lines 704-711: no backup follows.
add_message(loc, t, conversation_id, role, content) ==
    LET chat == loc[CHAT_DB_PATH]
    IN  [loc EXCEPT ![CHAT_DB_PATH].messages =
            @ \cup {[id |-> next_id(chat.messages), conversation_id |-> conversation_id,
                     role |-> role, content |-> content, created_at |-> t]}]

(***************************************************************************)
(* The application: one action per handler, or per step of a handler that  *)
(* can be interrupted.  pc is "down" before a script run, "restored" and   *)
(* "bootstrapped" inside ensure_dirs_and_dbs (lines 541-599), "ready" once *)
(* it has returned, "indexing" inside index_folder.                        *)
(***************************************************************************)
MaxConv == 2      \* most conversations started
MaxMsg  == 1      \* most messages added

Fixed == <<sp, sr, fts5, r2cfg, peer, threads, pm>>
AllFiles == DOMAIN NoFiles

\* A remote failure met by a backup of the files of loc.
NetFails(net, loc) ==
    r2cfg /\ (\/ ~net.c1 \/ ~net.c2
              \/ \E f \in AllFiles : loc[f] # NoFile /\ final_outcome(net.up[f]) # "answer")

RowCounts(loc) ==
    [users         |-> Cardinality(loc[USER_DB_PATH].users),
     documents     |-> Cardinality(loc[DOC_DB_PATH].documents),
     chunks        |-> Cardinality(loc[DOC_DB_PATH].chunks),
     conversations |-> Cardinality(loc[CHAT_DB_PATH].conversations),
     messages      |-> Cardinality(loc[CHAT_DB_PATH].messages)]

\* The history variable after an operation: "synced" when the operation
\* ended by uploading all three files as they now are.
MarkAfter(mutated, uploaded) ==
    IF uploaded = AllFiles THEN [phase |-> "synced"]
    ELSE IF mutated THEN NoMark ELSE mark

\* What an operation that ends in a backup leaves in last: r is its outcome,
\* r0 its outcome had the remote store worked.
OpLast(name, arg, r, r0, net) ==
    [op |-> name, arg |-> arg, at |-> now, raised |-> r.raised, ret |-> r.ret,
     via |-> r.via, msg |-> r.msg,
     ret_ok |-> r0.ret, same_db |-> r.db = r0.db, changed |-> r.db # db,
     sync |-> r.sync, touched |-> r.remote # remote,
     fault |-> r.sync /\ NetFails(net, r.db)]

\* restore_from_r2 as the first call of ensure_dirs_and_dbs (line 546).
StartupRestore(net) ==
    /\ pc \in {"down", "ready"}
    /\ LET r == restore_from_r2(db, remote, net)
       IN  /\ db' = r.db
           /\ last' = [op |-> "restore_from_r2", ret |-> r.ret, raised |-> r.raised,
                       calls |-> r.calls, requests |-> r.requests, down |-> net.down,
                       client |-> get_r2_client(net.c),
                       had |-> {f \in AllFiles : db[f] # NoFile},
                       kept |-> \A f \in AllFiles : db[f] # NoFile => r.db[f] = db[f]]
           /\ mark' = IF mark.phase = "lost" /\ \A f \in AllFiles : r.calls[f] = 1 /\ r.db[f] # NoFile
                      THEN [phase |-> "restored", counts |-> mark.counts]
                      ELSE NoMark
    /\ pc' = "restored"
    /\ UNCHANGED <<Fixed, remote, now, session, tx>>

\* create_user_db as called at line 549.
StartupBootstrap(net) ==
    /\ pc = "restored"
    /\ LET r  == create_user_db(db, remote, now, net)
           r0 == create_user_db(db, remote, now, OkNet)
       IN  /\ db' = r.db
           /\ remote' = r.remote
           /\ last' = OpLast("create_user_db", "admin", r, r0, net)
           /\ mark' = MarkAfter(r.db # db, r.uploaded)
    /\ pc' = "bootstrapped"
    /\ UNCHANGED <<Fixed, now, session, tx>>

\* Lines 551-599: the tables of documents.db and chat.db, created if missing.
StartupSchemas ==
    /\ pc = "bootstrapped"
    /\ db' = [db EXCEPT ![DOC_DB_PATH]  = IF @ = NoFile THEN EmptyDocDb ELSE @,
                        ![CHAT_DB_PATH] = IF @ = NoFile THEN EmptyChatDb ELSE @]
    /\ pc' = "ready"
    /\ mark' = IF db' = db THEN mark ELSE NoMark
    /\ UNCHANGED <<Fixed, remote, now, session, tx, last>>

\* The host replaces the container: the local files and the session go.
Lose ==
    /\ pc \in {"down", "ready"}
    /\ db # NoFiles
    /\ db' = NoFiles
    /\ pc' = "down"
    /\ session' = NoUser
    /\ mark' = IF mark.phase = "synced" /\ pc = "ready"
               THEN [phase |-> "lost", counts |-> RowCounts(db)]
               ELSE NoMark
    /\ UNCHANGED <<Fixed, remote, now, tx, last>>

\* A day count later.
Tick ==
    /\ pc \in {"down", "ready"}
    /\ now + TickDays <= MaxNow
    /\ now' = now + TickDays
    /\ UNCHANGED <<Fixed, db, remote, session, pc, tx, last, mark>>

\* A browser session of its own: an empty st.session_state.
NewSession ==
    /\ pc = "ready"
    /\ session # NoUser
    /\ session' = NoUser
    /\ UNCHANGED <<Fixed, db, remote, now, pc, tx, last, mark>>

\* The login button, lines 370-377.
Login(username, password, net) ==
    /\ pc = "ready"
    /\ session = NoUser
    /\ LET r  == validate_user(db, remote, now, username, password, net)
           r0 == validate_user(db, remote, now, username, password, OkNet)
       IN  /\ db' = r.db
           /\ remote' = r.remote
           /\ session' = IF r.ret = TRUE THEN username ELSE session
           /\ last' = OpLast("validate_user", <<username, password>>, r, r0, net)
           /\ mark' = MarkAfter(r.db # db, r.uploaded)
    /\ UNCHANGED <<Fixed, now, pc, tx>>

\* A call of add_user, from the admin panel (line 495) or from any session.
AddUser(username, password, email, months, net) ==
    /\ pc = "ready"
    /\ LET r  == add_user(db, remote, now, session, username, password, email, months, net)
           r0 == add_user(db, remote, now, session, username, password, email, months, OkNet)
       IN  /\ db' = r.db
           /\ remote' = r.remote
           /\ last' = OpLast("add_user", <<session, username>>, r, r0, net)
           /\ mark' = MarkAfter(r.db # db, r.uploaded)
    /\ UNCHANGED <<Fixed, now, session, pc, tx>>

\* The Backup Manual button, lines 402-407, shown to admin when
\* test_r2_connection succeeds.
ManualBackup(net) ==
    /\ pc = "ready"
    /\ session = "admin"
    /\ get_r2_client(TRUE)
    /\ LET r == backup_to_r2(db, remote, net)
       IN  /\ remote' = r.remote
           /\ last' = [op |-> "backup_to_r2", by |-> "self", raised |-> r.raised,
                       ret |-> r.ret, via |-> "ok", fault |-> NetFails(net, db)]
           /\ mark' = MarkAfter(FALSE, r.uploaded)
    /\ UNCHANGED <<Fixed, db, now, session, pc, tx>>

\* The Restaurar button, lines 410-416.
ManualRestore(net) ==
    /\ pc = "ready"
    /\ session = "admin"
    /\ get_r2_client(TRUE)
    /\ LET r == restore_from_r2(db, remote, net)
       IN  /\ db' = r.db
           /\ last' = [op |-> "restore_from_r2", ret |-> r.ret, raised |-> r.raised,
                       calls |-> r.calls, requests |-> r.requests, down |-> net.down,
                       client |-> get_r2_client(net.c),
                       had |-> {f \in AllFiles : db[f] # NoFile},
                       kept |-> \A f \in AllFiles : db[f] # NoFile => r.db[f] = db[f]]
           /\ mark' = IF r.db = db THEN mark ELSE NoMark
    /\ UNCHANGED <<Fixed, remote, now, session, pc, tx>>

\* index_folder on a path that is no directory, lines 625-628.
IndexNotFound ==
    /\ pc = "ready"
    /\ session # NoUser
    /\ last' = [op |-> "index_folder", arg |-> Missing, raised |-> FALSE, ret |-> <<0, 0>>,
                via |-> "not_found", msg |-> "Pasta nao encontrada",
                known |-> FALSE, midfile |-> FALSE, unchanged |-> TRUE, fault |-> FALSE,
                ret_ok |-> <<0, 0>>, same_db |-> TRUE]
    /\ UNCHANGED <<Fixed, db, remote, now, session, pc, tx, mark>>

\* index_folder, lines 629-633: the connection is opened and the files listed.
IndexBegin(folder) ==
    /\ pc = "ready"
    /\ session # NoUser
    /\ \E files \in Orders(rglob(folder)) :
          tx' = [pc |-> "file", folder |-> folder, files |-> files, i |-> 1,
                 work |-> db[DOC_DB_PATH], at |-> now,
                 new_docs |-> 0, new_chunks |-> 0, doc_id |-> 0, todo |-> <<>>, k |-> 0]
    /\ pc' = "indexing"
    /\ UNCHANGED <<Fixed, db, remote, now, session, last, mark>>

\* One pass of the loop of line 633, up to the documents INSERT.
IndexFile ==
    /\ pc = "indexing"
    /\ tx.pc = "file"
    /\ tx.i <= Len(tx.files)
    /\ tx' = index_file(tx, tx.files[tx.i])
    /\ UNCHANGED <<Fixed, db, remote, now, session, pc, last, mark>>

\* One pass of the loop of line 646.
IndexChunk ==
    /\ pc = "indexing"
    /\ tx.pc = "chunk"
    /\ tx' = index_chunk(tx, fts5)
    /\ UNCHANGED <<Fixed, db, remote, now, session, pc, last, mark>>

\* Lines 657-661: the commit, the backup, the counts returned.
IndexCommit(net) ==
    /\ pc = "indexing"
    /\ tx.pc = "file"
    /\ tx.i > Len(tx.files)
    /\ LET r  == index_commit(db, remote, tx, net)
           r0 == index_commit(db, remote, tx, OkNet)
       IN  /\ db' = r.db
           /\ remote' = r.remote
           /\ last' = [op |-> "index_folder", arg |-> tx.folder,
                       raised |-> r.raised, ret |-> r.ret,
                       via |-> "ok", msg |-> "none",
                       known |-> \A path \in rglob(tx.folder) :
                                    \E d \in db[DOC_DB_PATH].documents : d.path = path,
                       midfile |-> FALSE,
                       unchanged |-> /\ r.db[DOC_DB_PATH].documents = db[DOC_DB_PATH].documents
                                     /\ r.db[DOC_DB_PATH].chunks = db[DOC_DB_PATH].chunks,
                       sync |-> r.sync,
                       fault |-> r.sync /\ NetFails(net, r.db),
                       ret_ok |-> r0.ret, same_db |-> r.db = r0.db]
           /\ mark' = MarkAfter(r.db # db, r.uploaded)
    /\ pc' = "ready"
    /\ tx' = NoTx
    /\ UNCHANGED <<Fixed, now, session>>

\* A statement of the transaction raises (a storage error): the with block
\* of line 630 rolls back and the exception leaves index_folder.
IndexStorageError ==
    /\ pc = "indexing"
    /\ db' = [db EXCEPT ![DOC_DB_PATH] = rollback(@, tx.work)]
    /\ last' = [op |-> "index_folder", arg |-> tx.folder, raised |-> TRUE, ret |-> <<0, 0>>,
                via |-> "storage_error", msg |-> "none",
                known |-> FALSE, midfile |-> tx.pc = "chunk" /\ tx.k >= 1, unchanged |-> db'[DOC_DB_PATH] = db[DOC_DB_PATH],
                fault |-> FALSE, ret_ok |-> <<0, 0>>, same_db |-> TRUE]
    /\ mark' = IF db' = db THEN mark ELSE NoMark
    /\ pc' = "ready"
    /\ tx' = NoTx
    /\ UNCHANGED <<Fixed, remote, now, session>>

\* The process dies inside the transaction: SQLite rolls it back when the
\* file is next opened.  The local files stay, the session goes.
IndexCrash ==
    /\ pc = "indexing"
    /\ db' = [db EXCEPT ![DOC_DB_PATH] = rollback(@, tx.work)]
    /\ last' = [op |-> "index_folder", arg |-> tx.folder, raised |-> FALSE, ret |-> <<0, 0>>,
                via |-> "crash", msg |-> "none",
                known |-> FALSE, midfile |-> tx.pc = "chunk" /\ tx.k >= 1,
                unchanged |-> db'[DOC_DB_PATH] = db[DOC_DB_PATH],
                fault |-> FALSE, ret_ok |-> <<0, 0>>, same_db |-> TRUE]
    /\ mark' = IF db' = db THEN mark ELSE NoMark
    /\ pc' = "down"
    /\ session' = NoUser
    /\ tx' = NoTx
    /\ UNCHANGED <<Fixed, remote, now>>

\* A call of start_conversation.
StartConversation(title, net) ==
    /\ pc = "ready"
    /\ session # NoUser
    /\ Cardinality(db[CHAT_DB_PATH].conversations) < MaxConv
    /\ LET r  == start_conversation(db, remote, now, title, net)
           r0 == start_conversation(db, remote, now, title, OkNet)
       IN  /\ db' = r.db
           /\ remote' = r.remote
           /\ last' = OpLast("start_conversation", title, r, r0, net)
           /\ mark' = MarkAfter(TRUE, r.uploaded)
    /\ UNCHANGED <<Fixed, now, session, pc, tx>>

\* A call of add_message.
AddMessage(conversation_id, role, content) ==
    /\ pc = "ready"
    /\ session # NoUser
    /\ Cardinality(db[CHAT_DB_PATH].messages) < MaxMsg
    /\ db' = add_message(db, now, conversation_id, role, content)
    /\ mark' = NoMark
    /\ UNCHANGED <<Fixed, remote, now, session, pc, tx, last>>

(***************************************************************************)
(* The state a deployment starts in: no local file, and in the bucket      *)
(* either nothing or the users.db an earlier deployment left there.        *)
(***************************************************************************)
SeedUsers(active, expires) ==
    [users |-> {user_row(1, "admin", "admin123", "admin@origin.com", 0, 365),
                [user_row(2, "alice", "pw", "a@x.com", 0, expires)
                    EXCEPT !.active = active]}]

Seeds ==
    {NoObjects} \cup
    {[NoObjects EXCEPT ![r2_key(basename(USER_DB_PATH))] = SeedUsers(a, e)] :
        a \in {0, 1}, e \in {NULL, 30}}

InitApp(seeds, engines) ==
    /\ sp = NoSplit /\ sr = NoSearch
    /\ fts5 \in engines
    /\ r2cfg \in BOOLEAN
    /\ remote \in (IF r2cfg THEN seeds ELSE {NoObjects})
    /\ db = NoFiles
    /\ now = 0 /\ session = NoUser /\ pc = "down"
    /\ tx = NoTx /\ last = NoOp /\ mark = NoMark
    /\ peer = NoFiles /\ threads = NoThreads /\ pm = NoPrompt

\* The credential store on its own: the start of a script run, the clock,
\* logins and add_user calls, the network working or not.
CoarseNets ==
    {OkNet, [OkNet EXCEPT !.c1 = FALSE], [OkNet EXCEPT !.up[USER_DB_PATH] = <<"denied">>]}

NextAuth ==
    \/ \E net \in RestoreNets(db) : StartupRestore(net)
    \/ \E net \in CoarseNets : StartupBootstrap(net)
    \/ StartupSchemas
    \/ Tick
    \/ NewSession
    \/ \E username \in Usernames, password \in Passwords, net \in CoarseNets :
          Login(username, password, net)
    \/ \E username \in {"admin", "alice", "bob"}, months \in Months, net \in CoarseNets :
          AddUser(username, "pw", "a@x.com", months, net)

SpecAuth == InitApp(Seeds, {TRUE}) /\ [][NextAuth]_vars

\* The document store on its own: a script run that starts, admin logging
\* in, and index_folder calls that finish, fail or die.
OkRestore == [c |-> TRUE, down |-> AllUp]
DocNets == {OkNet, [OkNet EXCEPT !.c2 = FALSE]}

NextDocs ==
    \/ StartupRestore(OkRestore)
    \/ StartupBootstrap(OkNet)
    \/ StartupSchemas
    \/ Login("admin", "admin123", OkNet)
    \/ IndexNotFound
    \/ \E folder \in Folders : IndexBegin(folder)
    \/ IndexFile
    \/ IndexChunk
    \/ \E net \in DocNets : IndexCommit(net)
    \/ IndexStorageError
    \/ IndexCrash

SpecDocs == InitApp({NoObjects}, BOOLEAN) /\ [][NextDocs]_vars

\* The script run is stopped inside ensure_dirs_and_dbs, between two of its
\* calls: the files written so far stay.
StartupAbort ==
    /\ pc \in {"restored", "bootstrapped"}
    /\ pc' = "down"
    /\ session' = NoUser
    /\ mark' = NoMark
    /\ UNCHANGED <<Fixed, db, remote, now, tx, last>>

\* The whole application with the remote store working or failing in every
\* way: client construction, connectivity, the transfer of each file.
FaultNets ==
    {OkNet, [OkNet EXCEPT !.c1 = FALSE], [OkNet EXCEPT !.c2 = FALSE]}
        \cup {[OkNet EXCEPT !.up[f] = s] : f \in AllFiles, s \in UpScenarios \ {<<"answer">>}}

\* Every operation that ends in a backup, met by every fault.
NextFault ==
    \/ StartupRestore(OkRestore)
    \/ \E net \in FaultNets : StartupBootstrap(net)
    \/ StartupSchemas
    \/ NewSession
    \/ \E net \in FaultNets : Login("admin", "admin123", net)
    \/ \E net \in FaultNets : AddUser("alice", "pw", "a@x.com", 1, net)
    \/ IndexBegin("docs/origin/intro")
    \/ IndexFile
    \/ IndexChunk
    \/ \E net \in FaultNets : IndexCommit(net)
    \/ \E net \in FaultNets : StartConversation("Nova conversa", net)

SpecFault == InitApp({NoObjects}, {TRUE}) /\ [][NextFault]_vars

\* Backup, loss and restore: the three stores filled, backed up by hand or
\* by an operation, the container replaced, the script run again or stopped.
LossNets == {OkNet, [OkNet EXCEPT !.c2 = FALSE], [OkNet EXCEPT !.up[CHAT_DB_PATH] = <<"denied">>]}

Next ==
    \/ \E net \in RestoreNets(db) : StartupRestore(net)
    \/ StartupBootstrap(OkNet)
    \/ StartupSchemas
    \/ StartupAbort
    \/ Lose
    \/ Login("admin", "admin123", OkNet)
    \/ AddUser("alice", "pw", "a@x.com", 1, [OkNet EXCEPT !.c1 = FALSE])
    \/ \E net \in LossNets : ManualBackup(net)
    \/ \E net \in RestoreNets(db) : ManualRestore(net)
    \/ IndexBegin("docs/origin/intro")
    \/ IndexFile
    \/ IndexChunk
    \/ IndexCommit(OkNet)
    \/ \E net \in LossNets : StartConversation("Nova conversa", net)
    \/ AddMessage(1, "user", "a")

Spec == InitApp({NoObjects}, {TRUE}) /\ [][Next]_vars

(***************************************************************************)
(* Two instances of the application on one bucket: db holds the files of   *)
(* the first, peer the files of the second.  Each runs the same code; the  *)
(* second one's user is taken to be logged in.                             *)
(***************************************************************************)
\* ensure_dirs_and_dbs, lines 541-599, at the second instance.
PeerStartup ==
    /\ peer = NoFiles
    /\ LET r1 == restore_from_r2(peer, remote, OkRestore)
           r2 == create_user_db(r1.db, remote, now, OkNet)
       IN  /\ peer' = [r2.db EXCEPT ![DOC_DB_PATH]  = IF @ = NoFile THEN EmptyDocDb ELSE @,
                                    ![CHAT_DB_PATH] = IF @ = NoFile THEN EmptyChatDb ELSE @]
           /\ remote' = r2.remote
           /\ last' = [op |-> "ensure_dirs_and_dbs", by |-> "peer", raised |-> r2.raised,
                       ret |-> r1.ret, via |-> "ok"]
    /\ UNCHANGED <<sp, sr, fts5, r2cfg, threads, pm, db, now, session, pc, tx, mark>>

\* start_conversation at the second instance.
PeerStartConversation(title, net) ==
    /\ peer # NoFiles
    /\ Cardinality(peer[CHAT_DB_PATH].conversations) < MaxConv
    /\ LET r == start_conversation(peer, remote, now, title, net)
       IN  /\ peer' = r.db
           /\ remote' = r.remote
           /\ last' = [op |-> "start_conversation", by |-> "peer", raised |-> r.raised,
                       ret |-> r.ret, via |-> r.via]
    /\ UNCHANGED <<sp, sr, fts5, r2cfg, threads, pm, db, now, session, pc, tx, mark>>

\* backup_to_r2 at the second instance.
PeerBackup(net) ==
    /\ peer # NoFiles
    /\ get_r2_client(TRUE)
    /\ LET r == backup_to_r2(peer, remote, net)
       IN  /\ remote' = r.remote
           /\ last' = [op |-> "backup_to_r2", by |-> "peer", raised |-> r.raised,
                       ret |-> r.ret, via |-> "ok", before |-> remote]
    /\ UNCHANGED <<sp, sr, fts5, r2cfg, threads, pm, db, peer, now, session, pc, tx, mark>>

NextPeers ==
    \/ StartupRestore(OkRestore)
    \/ StartupBootstrap(OkNet)
    \/ StartupSchemas
    \/ Login("admin", "admin123", OkNet)
    \/ StartConversation("conversa A", OkNet)
    \/ AddMessage(1, "user", "a")
    \/ \E net \in LossNets : ManualBackup(net)
    \/ PeerStartup
    \/ PeerStartConversation("conversa B", OkNet)
    \/ \E net \in LossNets : PeerBackup(net)

SpecPeers == InitApp({NoObjects}, {TRUE}) /\ [][NextPeers]_vars

(***************************************************************************)
(* index_folder called at once in two script threads, each on its own      *)
(* connection to documents.db (line 630).  SQLite lets one connection      *)
(* write at a time: the first INSERT of a call opens its transaction and   *)
(* takes the write lock, kept until the commit of line 657; a SELECT made  *)
(* outside a transaction reads the committed file.                         *)
(***************************************************************************)
Threads == {1, 2}
\* Another thread has its transaction open.
locked(th) == \E o \in Threads \ {th} : threads[o].pc # "idle" /\ threads[o].txn

\* What the connection of a thread reads: its transaction, or the file.
view(th) == IF threads[th].txn THEN threads[th].work ELSE db[DOC_DB_PATH]

\* Lines 641-656 for one file: the documents row, then a chunks row and a
\* chunks_fts row for each chunk split_text returns.
insert_rows(docdb, path, t, has_fts5) ==
    LET x == extract_text_from_pdf(path)
        id == next_id(docdb.documents)
        parts == split_text(x.text, CHUNK_SIZE, CHUNK_OVERLAP)
        first == next_id(docdb.chunks)
    IN  [documents  |-> docdb.documents \cup
                           {[id |-> id, filename |-> pdf_basename(path), path |-> path,
                             n_pages |-> x.n_pages, added_at |-> t]},
         chunks     |-> docdb.chunks \cup
                           {[id |-> first + k - 1, document_id |-> id,
                             chunk_index |-> k - 1, text |-> parts[k]] : k \in 1..Len(parts)},
         chunks_fts |-> IF has_fts5
                        THEN docdb.chunks_fts \cup
                                {[rowid |-> first + k - 1, text |-> parts[k]] : k \in 1..Len(parts)}
                        ELSE docdb.chunks_fts]

\* Lines 629-633 in thread th.
ConcBegin(th, folder) ==
    /\ threads[th].pc = "idle"
    /\ \E files \in Orders(rglob(folder)) :
          threads' = [threads EXCEPT ![th] =
                         [pc |-> "select", folder |-> folder, files |-> files, i |-> 1,
                          txn |-> FALSE, work |-> EmptyDocDb,
                          new_docs |-> 0, new_chunks |-> 0]]
    /\ UNCHANGED <<sp, sr, fts5, r2cfg, peer, pm, db, remote, now, session, pc, tx, last, mark>>

\* Lines 634-640 in thread th: the SELECT for the path and the text test.
ConcSelect(th) ==
    /\ threads[th].pc = "select"
    /\ threads[th].i <= Len(threads[th].files)
    /\ LET path == threads[th].files[threads[th].i]
       IN  threads' = [threads EXCEPT ![th] =
                IF already_indexed(view(th), path)
                      \/ strip(extract_text_from_pdf(path).text) = <<>>
                THEN [@ EXCEPT !.i = @ + 1]
                ELSE [@ EXCEPT !.pc = "insert"]]
    /\ UNCHANGED <<sp, sr, fts5, r2cfg, peer, pm, db, remote, now, session, pc, tx, last, mark>>

\* Lines 641-656 in thread th, once no other connection holds the write lock.
ConcInsert(th) ==
    /\ threads[th].pc = "insert"
    /\ ~locked(th)
    /\ LET path == threads[th].files[threads[th].i]
           w == insert_rows(view(th), path, now, fts5)
       IN  threads' = [threads EXCEPT ![th] =
                [@ EXCEPT !.pc = "select", !.txn = TRUE, !.work = w, !.i = @ + 1,
                          !.new_docs = @ + 1,
                          !.new_chunks = @ + Cardinality(w.chunks)
                                           - Cardinality(view(th).chunks)]]
    /\ UNCHANGED <<sp, sr, fts5, r2cfg, peer, pm, db, remote, now, session, pc, tx, last, mark>>

\* The INSERT of line 641 waits for the write lock longer than the
\* connection's timeout: OperationalError leaves index_folder.
ConcLocked(th) ==
    /\ threads[th].pc = "insert"
    /\ locked(th)
    /\ threads' = [threads EXCEPT ![th] = [pc |-> "idle"]]
    /\ last' = [op |-> "index_folder", by |-> th, arg |-> threads[th].folder,
                raised |-> TRUE, ret |-> <<0, 0>>, via |-> "locked"]
    /\ UNCHANGED <<sp, sr, fts5, r2cfg, peer, pm, db, remote, now, session, pc, tx, mark>>

\* Lines 657-661 in thread th.
ConcCommit(th) ==
    /\ threads[th].pc = "select"
    /\ threads[th].i > Len(threads[th].files)
    /\ LET r == index_commit(db, remote, [threads[th] EXCEPT !.work = view(th)], OkNet)
       IN  /\ db' = r.db
           /\ remote' = r.remote
           /\ last' = [op |-> "index_folder", by |-> th, arg |-> threads[th].folder,
                       raised |-> r.raised, ret |-> r.ret, via |-> "ok"]
    /\ threads' = [threads EXCEPT ![th] = [pc |-> "idle"]]
    /\ UNCHANGED <<sp, sr, fts5, r2cfg, peer, pm, now, session, pc, tx, mark>>

\* The application started and admin logged in, nothing indexed yet.
ReadyFiles ==
    [create_user_db(NoFiles, NoObjects, 0, OkNet).db
        EXCEPT ![DOC_DB_PATH] = EmptyDocDb, ![CHAT_DB_PATH] = EmptyChatDb]

InitConc ==
    /\ sp = NoSplit /\ sr = NoSearch
    /\ fts5 \in BOOLEAN
    /\ r2cfg = FALSE /\ remote = NoObjects
    /\ db = ReadyFiles
    /\ now = 0 /\ session = "admin" /\ pc = "ready"
    /\ tx = NoTx /\ last = NoOp /\ mark = NoMark
    /\ peer = NoFiles /\ pm = NoPrompt
    /\ threads = [th \in Threads |-> [pc |-> "idle"]]

NextConc ==
    \E th \in Threads :
        \/ \E folder \in {"docs/origin", "docs/origin/intro"} : ConcBegin(th, folder)
        \/ ConcSelect(th)
        \/ ConcInsert(th)
        \/ ConcLocked(th)
        \/ ConcCommit(th)

SpecConc == InitConc /\ [][NextConc]_vars

(***************************************************************************)
(* The operations that end in a backup, one statement at a time.  Each     *)
(* opens its own connection (lines 237, 273, 319, 630, 693); the first     *)
(* INSERT or UPDATE on it opens a transaction and takes the write lock of  *)
(* the file, con.commit() ends it, and the upload reads the file on disk.  *)
(* tx is the frame of the call in progress.                                *)
(***************************************************************************)
\* The statements in the other order: the backup before con.commit().
statements_sync_first(op) == <<"execute", "sync", "commit", "return">>

\* The statements of an operation in program order: the writes, con.commit()
\* (lines 263, 307, 328, 657, 699), the backup call (lines 266, 310, 331,
\* 660, 701), the return.
statements(op) == <<"execute", "commit", "sync", "return">>

\* The file an operation connects to.
db_file_of(op) ==
    CASE op \in {"create_user_db", "validate_user", "add_user"} -> USER_DB_PATH
      [] op = "index_folder"                                    -> DOC_DB_PATH
      [] op = "start_conversation"                              -> CHAT_DB_PATH

\* Lines 633-656 over the files of a folder.
RECURSIVE index_files(_, _, _, _, _)
index_files(docdb, files, i, t, has_fts5) ==
    IF i > Len(files) THEN docdb
    ELSE index_files(IF already_indexed(docdb, files[i])
                           \/ strip(extract_text_from_pdf(files[i]).text) = <<>>
                     THEN docdb
                     ELSE insert_rows(docdb, files[i], t, has_fts5),
                     files, i + 1, t, has_fts5)

\* The frame of a call: work is the file as the connection sees it once the
\* writes are made, k the statement reached, i the place in the upload loop
\* of line 150 (0 before the client is made).
Frame(op, arg, r, net) ==
    [pc |-> IF r.sync \/ r.via = "conflict" THEN "execute" ELSE "return",
     op |-> op, arg |-> arg, net |-> net, k |-> 1,
     work |-> r.db[db_file_of(op)], ret |-> r.ret, via |-> r.via,
     txn |-> {}, i |-> 0,
     acc |-> [ret |-> FALSE, raised |-> FALSE, remote |-> remote, uploaded |-> {}]]

\* create_user_db called: a rerun of the script, line 549.
BeginBootstrap(net) ==
    /\ pc = "ready" /\ tx = NoTx
    /\ tx' = Frame("create_user_db", <<>>, create_user_db(db, remote, now, net), net)
    /\ UNCHANGED <<db, remote, last,
                   sp, sr, fts5, r2cfg, peer, threads, pm, now, session, pc, mark>>

\* validate_user called, line 372.
BeginValidate(username, password, net) ==
    /\ pc = "ready" /\ tx = NoTx /\ db[USER_DB_PATH] # NoFile
    /\ tx' = Frame("validate_user", <<username, password>>,
                   validate_user(db, remote, now, username, password, net), net)
    /\ UNCHANGED <<db, remote, last,
                   sp, sr, fts5, r2cfg, peer, threads, pm, now, session, pc, mark>>

\* add_user called, line 495.
BeginAddUser(username, password, months, net) ==
    /\ pc = "ready" /\ tx = NoTx /\ db[USER_DB_PATH] # NoFile
    /\ tx' = Frame("add_user", <<username, password>>,
                   add_user(db, remote, now, session, username, password, "", months, net),
                   net)
    /\ UNCHANGED <<db, remote, last,
                   sp, sr, fts5, r2cfg, peer, threads, pm, now, session, pc, mark>>

\* index_folder called on a folder that exists.
BeginIndex(folder, net) ==
    /\ pc = "ready" /\ tx = NoTx /\ db[USER_DB_PATH] # NoFile
    /\ \E files \in Orders(rglob(folder)) :
          LET work == index_files(db[DOC_DB_PATH], files, 1, now, fts5)
              r == [db |-> [db EXCEPT ![DOC_DB_PATH] = work], sync |-> TRUE, via |-> "ok",
                    ret |-> <<Cardinality(work.documents)
                                 - Cardinality(db[DOC_DB_PATH].documents),
                              Cardinality(work.chunks)
                                 - Cardinality(db[DOC_DB_PATH].chunks)>>]
          IN  tx' = Frame("index_folder", <<folder>>, r, net)
    /\ UNCHANGED <<db, remote, last,
                   sp, sr, fts5, r2cfg, peer, threads, pm, now, session, pc, mark>>

\* start_conversation called.
BeginConversation(title, net) ==
    /\ pc = "ready" /\ tx = NoTx /\ db[USER_DB_PATH] # NoFile
    /\ Cardinality(db[CHAT_DB_PATH].conversations) < MaxConv
    /\ tx' = Frame("start_conversation", <<title>>,
                   start_conversation(db, remote, now, title, net), net)
    /\ UNCHANGED <<db, remote, last,
                   sp, sr, fts5, r2cfg, peer, threads, pm, now, session, pc, mark>>

\* The writes of the operation, on its connection: the file on disk is as
\* it was.  The UPDATE of line 303 and the INSERTs of lines 323 and 695
\* always run and take the write lock; create_user_db and index_folder
\* insert only what is missing.  The INSERT of line 323 that meets the
\* UNIQUE of line 242 raises IntegrityError inside the transaction it opened.
StmtExecute ==
    /\ tx.pc = "execute"
    /\ LET f == db_file_of(tx.op)
           writes == tx.op \in {"validate_user", "add_user", "start_conversation"}
                        \/ tx.work # db[f]
       IN  tx' = IF tx.via = "conflict"
                 THEN [tx EXCEPT !.pc = "except", !.txn = {f}]
                 ELSE [tx EXCEPT !.k = @ + 1, !.pc = statements(tx.op)[tx.k + 1],
                                 !.txn = IF writes THEN {f} ELSE {}]
    /\ UNCHANGED <<db, remote, last,
                   sp, sr, fts5, r2cfg, peer, threads, pm, now, session, pc, mark>>

\* con.commit(): the writes reach the file and the lock is released.
StmtCommit ==
    /\ tx.pc = "commit"
    /\ db' = [db EXCEPT ![db_file_of(tx.op)] = tx.work]
    /\ tx' = [tx EXCEPT !.k = @ + 1, !.pc = statements(tx.op)[tx.k + 1], !.txn = {}]
    /\ UNCHANGED <<remote, last,
                   sp, sr, fts5, r2cfg, peer, threads, pm, now, session, pc, mark>>

\* Lines 333-334: return False, the with block of line 319 ending the
\* transaction on the way out.
StmtExcept ==
    /\ tx.pc = "except"
    /\ tx' = [tx EXCEPT !.pc = "return", !.txn = {}]
    /\ UNCHANGED <<db, remote, last,
                   sp, sr, fts5, r2cfg, peer, threads, pm, now, session, pc, mark>>

\* The backup call up to its client: through sync_user_data (lines 266,
\* 310, 331) and its test of line 192, or straight to backup_to_r2 (lines
\* 660, 701), then lines 142-144.  Without a client it is over.
StmtSync ==
    /\ tx.pc = "sync" /\ tx.i = 0
    /\ tx' = IF (tx.op \in {"create_user_db", "validate_user", "add_user"}
                     => get_r2_client(tx.net.c1))
                  /\ get_r2_client(tx.net.c2)
             THEN [tx EXCEPT !.i = 1, !.acc.ret = TRUE, !.acc.remote = remote]
             ELSE [tx EXCEPT !.k = @ + 1, !.pc = statements(tx.op)[tx.k + 1]]
    /\ UNCHANGED <<db, remote, last,
                   sp, sr, fts5, r2cfg, peer, threads, pm, now, session, pc, mark>>

\* One pass of the loop of line 150: the file on disk uploaded.
StmtUpload ==
    /\ tx.pc = "sync" /\ tx.i >= 1
    /\ LET acc == backup_file(tx.acc, DB_FILES[tx.i], db, tx.net.up[DB_FILES[tx.i]])
           t == [tx EXCEPT !.acc = acc, !.i = @ + 1]
       IN  /\ remote' = acc.remote
           /\ tx' = IF tx.i = Len(DB_FILES)
                    THEN [t EXCEPT !.k = @ + 1, !.pc = statements(tx.op)[tx.k + 1]]
                    ELSE t
    /\ UNCHANGED <<db, last,
                   sp, sr, fts5, r2cfg, peer, threads, pm, now, session, pc, mark>>

\* The operation returns.
StmtReturn ==
    /\ tx.pc = "return"
    /\ tx' = NoTx
    /\ last' = [op |-> tx.op, ret |-> tx.ret]
    /\ UNCHANGED <<db, remote,
                   sp, sr, fts5, r2cfg, peer, threads, pm, now, session, pc, mark>>

InitStmt ==
    /\ sp = NoSplit /\ sr = NoSearch
    /\ fts5 = TRUE
    /\ r2cfg \in BOOLEAN /\ remote = NoObjects
    /\ db \in {ReadyFiles, [ReadyFiles EXCEPT ![USER_DB_PATH] = NoFile]}
    /\ now = 0 /\ session = "admin" /\ pc = "ready"
    /\ tx = NoTx /\ last = NoOp /\ mark = NoMark
    /\ peer = NoFiles /\ threads = NoThreads /\ pm = NoPrompt

NextStmt ==
    \/ \E net \in {OkNet, [OkNet EXCEPT !.c1 = FALSE],
                    [OkNet EXCEPT !.up[DOC_DB_PATH] = <<"denied">>]} :
          \/ BeginBootstrap(net)
          \/ \E username \in {"admin", "alice"}, password \in {"admin123", "bad"} :
                BeginValidate(username, password, net)
          \/ \E username \in {"admin", "alice"} : BeginAddUser(username, "pw", 1, net)
          \/ BeginIndex("docs/origin/intro", net)
          \/ BeginConversation("t", net)
    \/ StmtExecute
    \/ StmtCommit
    \/ StmtExcept
    \/ StmtSync
    \/ StmtUpload
    \/ StmtReturn

SpecStmt == InitStmt /\ [][NextStmt]_vars

(***************************************************************************)
(* process_message, src/streamlit_origin_agent.py lines 217-282: one       *)
(* prompt of the chat, agent.run tried up to three times.  pm is the       *)
(* session's message list and the frame of the call; log keeps what each   *)
(* agent.run call of the prompt did: it raised an exception with a text (a *)
(* sequence of characters), or returned an object with a content          *)
(* attribute, a string or None.                                            *)
(***************************************************************************)
MaxPrompts == 2


\* needle in text, for strings (lines 250 and 276).
in_str(needle, text) ==
    \E i \in 0..(Len(text) - Len(needle)) :
        SubSeq(text, i + 1, i + Len(needle)) = needle

\* The test of line 250 with the test for "429" left out.
retry_any_error(e, attempt) == attempt < 2

\* Line 250: "429" in str(e) and attempt < 2.
retry(e, attempt) == in_str(<<"4", "2", "9">>, e) /\ attempt < 2

\* Lines 262-265: response.content, or str(response).
response_text(response) == response.content

\* Lines 200-201: the session starts with no messages.
PromptInit ==
    /\ sp = NoSplit /\ sr = NoSearch /\ fts5 = TRUE /\ db = NoFiles
    /\ remote = NoObjects /\ r2cfg = FALSE /\ now = 0 /\ session = NoUser
    /\ pc = "off" /\ tx = NoTx /\ last = NoOp /\ mark = NoMark
    /\ peer = NoFiles /\ threads = NoThreads
    /\ pm = [pc |-> "idle", messages |-> <<>>, n |-> 0, prompt |-> "none",
             before |-> <<>>, attempt |-> 0, log |-> <<>>, response |-> [kind |-> "None", content |-> ""],
             err |-> <<>>, shown |-> "none"]

\* Lines 220-243: the key test, the user message appended, the agent made.
ProcessMessage(prompt, has_key, agent_ok) ==
    /\ pm.pc = "idle"
    /\ pm.n < MaxPrompts
    /\ LET t == [pm EXCEPT !.n = @ + 1, !.prompt = prompt, !.before = pm.messages,
                           !.attempt = 0, !.log = <<>>, !.response = [kind |-> "None", content |-> ""],
                           !.err = <<>>, !.shown = "none"]
           user == [role |-> "user", content |-> prompt]
       IN  pm' = IF ~has_key THEN [t EXCEPT !.shown = "no_key"]
                 ELSE IF ~agent_ok
                 THEN [t EXCEPT !.messages = Append(@, user), !.shown = "no_agent"]
                 ELSE [t EXCEPT !.messages = Append(@, user), !.pc = "run"]
    /\ UNCHANGED <<sp, sr, fts5, db, remote, r2cfg, now, session, pc, tx, last, mark,
                   peer, threads>>

\* Lines 247-249: agent.run returns, and break leaves the loop.
RunReturns(response) ==
    /\ pm.pc = "run"
    /\ pm.attempt < 3
    /\ pm' = [pm EXCEPT !.response = response, !.pc = "after",
                        !.log = Append(@, [kind |-> "return", text |-> <<>>,
                                           value |-> response])]
    /\ UNCHANGED <<sp, sr, fts5, db, remote, r2cfg, now, session, pc, tx, last, mark,
                   peer, threads>>

\* Lines 247-255: agent.run raises e: the next pass of the loop, or e
\* raised again.
RunRaises(e) ==
    /\ pm.pc = "run"
    /\ pm.attempt < 3
    /\ LET t == [pm EXCEPT !.log = Append(@, [kind |-> "raise", text |-> e,
                                              value |-> [kind |-> "None", content |-> ""]])]
       IN  pm' = IF retry(e, pm.attempt)
                 THEN [t EXCEPT !.attempt = @ + 1]
                 ELSE [t EXCEPT !.pc = "except", !.err = e]
    /\ UNCHANGED <<sp, sr, fts5, db, remote, r2cfg, now, session, pc, tx, last, mark,
                   peer, threads>>

\* Lines 257-272: no message for a response that is not truthy (None, the
\* empty string); otherwise its text appended as the assistant's message.
AfterLoop ==
    /\ pm.pc = "after"
    /\ pm' = IF pm.response.kind = "None"
                  \/ (pm.response.kind = "str" /\ pm.response.content = "")
             THEN [pm EXCEPT !.pc = "idle", !.shown = "failed_after_3"]
             ELSE [pm EXCEPT !.pc = "idle",
                             !.messages = Append(@, [role |-> "assistant",
                                                     content |-> response_text(pm.response)])]
    /\ UNCHANGED <<sp, sr, fts5, db, remote, r2cfg, now, session, pc, tx, last, mark,
                   peer, threads>>

\* Lines 274-279: the error shown.
Except ==
    /\ pm.pc = "except"
    /\ pm' = [pm EXCEPT !.pc = "idle",
                        !.shown = IF in_str(<<"4", "2", "9">>, pm.err)
                                  THEN "rate_limit" ELSE "error"]
    /\ UNCHANGED <<sp, sr, fts5, db, remote, r2cfg, now, session, pc, tx, last, mark,
                   peer, threads>>

NextPrompt ==
    \/ \E prompt \in {"q1", "q2"}, has_key \in BOOLEAN, agent_ok \in BOOLEAN :
          ProcessMessage(prompt, has_key, agent_ok)
    \/ \E response \in {[kind |-> "object", content |-> "hi"],
                         [kind |-> "str", content |-> "ok"],
                         [kind |-> "str", content |-> ""],
                         [kind |-> "None", content |-> ""]} :
          RunReturns(response)
    \/ \E e \in {<<"4", "2", "9">>, <<"E", "4", "2", "9", "!">>, <<"5", "0", "0">>, <<"4", "2">>} :
          RunRaises(e)
    \/ AfterLoop
    \/ Except

SpecPrompt == PromptInit /\ [][NextPrompt]_vars

(***************************************************************************)
(* Properties.                                                             *)
(***************************************************************************)
\* The chunks' leading portions that do not overlap the next chunk (the
\* first size - overlap characters of each), then the whole last chunk.
RECURSIVE Reconstruct(_, _, _)
Reconstruct(chunks, size, overlap) ==
    IF chunks = <<>> THEN <<>>
    ELSE IF Len(chunks) = 1 THEN chunks[1]
    ELSE SubSeq(chunks[1], 1, Min(Len(chunks[1]), size - overlap))
            \o Reconstruct(Tail(chunks), size, overlap)

EdgeSpace(p) == p = <<>> \/ IsSpace(p[1]) \/ IsSpace(p[Len(p)])

SplitValid == sp.pc = "done" /\ sp.size > sp.overlap

Contains(text, q) ==
    \E i \in 0..(Len(text) - Len(q)) : SubSeq(text, i + 1, i + Len(q)) = q

Returned(c) ==
    \E i \in 1..Len(sr.rows) :
        sr.rows[i].text = c.text /\ sr.rows[i].document_id = c.document_id

FallbackCall ==
    sr.pc = "done" /\ ~fts5 /\ sr.top_k >= 1 /\ strip(sr.query) # <<>>

\* The chunks the substring filter accepts, joined to their documents.
LikeHits ==
    {c \in db[DOC_DB_PATH].chunks :
        /\ \E d \in db[DOC_DB_PATH].documents : d.id = c.document_id
        /\ like(c.text, <<"%">> \o strip(sr.query) \o <<"%">>)}

\* C6 as stated: without FTS5, with top_k >= 1, every chunk in which the
\* query occurs verbatim is among the rows search_chunks returns.
C6_FallbackFindsOriginal ==
    FallbackCall =>
        \A c \in db[DOC_DB_PATH].chunks : Contains(c.text, sr.query) => Returned(c)

\* C6 amended: without FTS5, with top_k >= 1 and a query that is not blank,
\* search_chunks returns min(top_k, m) rows of score 0, m being the number
\* of chunks the substring filter accepts, each row one of those chunks; so
\* every chunk in which the query occurs verbatim is returned when m <= top_k.
C6_FallbackFinds ==
    FallbackCall =>
        /\ sr.via = "fallback"
        /\ Len(sr.rows) = Min(sr.top_k, Cardinality(LikeHits))
        /\ \A i \in 1..Len(sr.rows) :
              /\ sr.rows[i].score = 0
              /\ \E c \in LikeHits : sr.rows[i].text = c.text
                                       /\ sr.rows[i].document_id = c.document_id
        /\ Cardinality(LikeHits) <= sr.top_k =>
              \A c \in db[DOC_DB_PATH].chunks : Contains(c.text, sr.query) => Returned(c)

\* A fallback call whose query sits inside a chunk, all matches returned.
C6_Witness ==
    /\ FallbackCall
    /\ Cardinality(LikeHits) = 2 /\ sr.top_k = 2
    /\ \E c \in db[DOC_DB_PATH].chunks :
          Contains(c.text, sr.query) /\ c.text # sr.query /\ Returned(c)

\* C7: with FTS5 available search_chunks returns at most top_k rows, their
\* scores in non-decreasing order.
C7_RankedOrder ==
    (sr.pc = "done" /\ fts5) =>
        /\ Len(sr.rows) <= sr.top_k
        /\ \A i, j \in 1..Len(sr.rows) : i < j => sr.rows[i].score <= sr.rows[j].score

\* A ranked call that cut three matching rows of two different costs to two.
C7_Witness ==
    /\ sr.pc = "done" /\ fts5 /\ sr.via = "ranked"
    /\ sr.top_k = 2 /\ Len(sr.rows) = 2
    /\ sr.rows[1].score < sr.rows[2].score
    /\ Cardinality(db[DOC_DB_PATH].chunks) = 3
    /\ \A c \in db[DOC_DB_PATH].chunks : fts_match(c.text, strip(sr.query))

\* The case a validate_user call falls in, read off the account table.
Account(username) == CHOOSE u \in users_table(db) : u.username = username

AuthCase(username, password, t) ==
    IF username = "" \/ password = "" THEN "empty"
    ELSE IF ~\E u \in users_table(db) : u.username = username THEN "NotFound"
    ELSE IF Account(username).password_hash # hash_password(password) THEN "BadPassword"
    ELSE IF Account(username).active = 0 THEN "Inactive"
    ELSE IF Account(username).subscription_expires # NULL
            /\ t > Account(username).subscription_expires THEN "Expired"
    ELSE "ok"

LastValidate == pc = "ready" /\ last.op = "validate_user"
LastCase == AuthCase(last.arg[1], last.arg[2], last.at)

\* validate_user returns False for an inactive account given its password
\* and for an expired account given any password.
ValidateRejects ==
    LastValidate =>
        /\ LastCase \in {"NotFound", "BadPassword", "Inactive", "Expired"}
              => last.ret = FALSE /\ ~last.raised /\ ~last.changed
        /\ (\E u \in users_table(db) :
               /\ u.username = last.arg[1]
               /\ \/ u.active = 0
                  \/ u.subscription_expires # NULL /\ last.at > u.subscription_expires)
              => last.ret = FALSE

\* C3 as stated: validate_user rejects the inactive and the expired account,
\* and the result it returns for the inactive account differs from the
\* result it returns for an expired account, an unknown user or a wrong
\* password.
C3_DistinctResultOriginal ==
    /\ ValidateRejects
    /\ (LastValidate /\ LastCase = "Inactive") =>
          \A username \in Usernames, password \in Passwords :
              AuthCase(username, password, last.at) \in {"Expired", "NotFound", "BadPassword"}
                  => validate_user(db, remote, last.at, username, password, OkNet).ret
                        # last.ret

\* C3 amended: validate_user returns False in the four failure cases alike;
\* what tells them apart is the message it gives to st.error, one for the
\* inactive account, another for the expired one, none for an unknown user
\* or a wrong password.
C3_DistinctMessage ==
    /\ ValidateRejects
    /\ LastValidate =>
          /\ LastCase = "Inactive" =>
                last.msg = "Usuario desativado. Entre em contato com o suporte."
          /\ LastCase = "Expired" =>
                last.msg = "Assinatura expirada. Renove seu acesso."
          /\ LastCase \in {"NotFound", "BadPassword", "empty", "ok"} => last.msg = "none"

\* The password of an inactive account was given and refused.
C3_Witness ==
    /\ LastValidate
    /\ LastCase = "Inactive"
    /\ last.ret = FALSE
    /\ \E username \in Usernames, password \in Passwords :
          AuthCase(username, password, last.at) = "Expired"

\* C4: add_user called in a session that is not admin's returns False,
\* changes no row of users.db and starts no backup.
C4_AddUserDenied ==
    (pc = "ready" /\ last.op = "add_user" /\ last.arg[1] # "admin") =>
        /\ last.ret = FALSE /\ ~last.raised
        /\ ~last.changed
        /\ ~last.sync /\ ~last.touched

\* alice, logged in, asked for an account that does not exist.
C4_Witness ==
    /\ pc = "ready" /\ last.op = "add_user"
    /\ last.arg[1] = "alice" /\ session = "alice"
    /\ ~\E u \in users_table(db) : u.username = last.arg[2]
    /\ last.ret = FALSE

\* C2: index_folder run over a folder whose PDF files all have a documents
\* row already returns (0, 0) and leaves documents and chunks as they were.
C2_ReindexIdempotent ==
    (last.op = "index_folder" /\ last.via = "ok" /\ last.known) =>
        /\ last.ret = <<0, 0>> /\ ~last.raised
        /\ last.unchanged

\* A second run over docs/origin, both of its files ingested before.
C2_Witness ==
    /\ last.op = "index_folder" /\ last.via = "ok" /\ last.known
    /\ last.arg = "docs/origin"
    /\ pc = "ready"
    /\ Cardinality(db[DOC_DB_PATH].documents) = 2
    /\ Cardinality(db[DOC_DB_PATH].chunks) = 4

\* The rows of chunks that belong to a document, as (chunk_index, text).
ChunksOf(docdb, d) ==
    {<<c.chunk_index, c.text>> : c \in {c \in docdb.chunks : c.document_id = d.id}}

\* The chunks split_text cuts from the text of a path.
Expected(path) ==
    LET parts == split_text(extract_text_from_pdf(path).text, CHUNK_SIZE, CHUNK_OVERLAP)
    IN  {<<i - 1, parts[i]>> : i \in 1..Len(parts)}

\* C10: in the committed documents.db every chunks row names a documents
\* row, and every documents row has exactly the chunks split_text cuts from
\* its file: a file's rows are committed together or not at all.
C10_FileAtomic ==
    db[DOC_DB_PATH] # NoFile =>
        LET docdb == db[DOC_DB_PATH]
        IN  /\ \A c \in docdb.chunks : \E d \in docdb.documents : d.id = c.document_id
            /\ \A d \in docdb.documents :
                  /\ ChunksOf(docdb, d) = Expected(d.path)
                  /\ Cardinality({c \in docdb.chunks : c.document_id = d.id})
                        = Cardinality(Expected(d.path))

\* index_folder failed or died between two chunks of a file, with a
\* document of an earlier run committed.
C10_Witness ==
    /\ last.op = "index_folder" /\ last.via \in {"storage_error", "crash"}
    /\ last.midfile
    /\ db[DOC_DB_PATH] # NoFile
    /\ Cardinality(db[DOC_DB_PATH].documents) = 1
    /\ \E d \in db[DOC_DB_PATH].documents : d.path = PdfA

\* C1: with the remote store configured and written by this deployment
\* alone, a backup that uploads all three files, then the loss of the three
\* local files, then a restore that fetches all three, leaves users,
\* documents, chunks, conversations and messages with the row counts they
\* had just before the loss.
C1_RoundTrip ==
    mark.phase = "restored" => RowCounts(db) = mark.counts

\* The round trip made with every store filled.
C1_Witness ==
    /\ mark.phase = "restored" /\ pc = "restored"
    /\ last.op = "restore_from_r2" /\ last.had = {}
    /\ mark.counts = [users |-> 2, documents |-> 1, chunks |-> 1,
                      conversations |-> 2, messages |-> 1]

SyncingOps ==
    {"create_user_db", "validate_user", "add_user", "index_folder", "start_conversation"}

\* C8: when the backup that ends create_user_db, validate_user, add_user,
\* index_folder or start_conversation meets a failure of the remote store
\* (no client, no connection, an upload refused), no exception leaves the
\* operation, it returns what it returns when the store works, and the
\* local files are as they are when the store works.
C8_SyncFaultSwallowed ==
    (last.op \in SyncingOps /\ last.sync /\ last.fault) =>
        /\ ~last.raised
        /\ last.ret = last.ret_ok
        /\ last.same_db

\* index_folder commits a document and its chunk while the upload of
\* documents.db fails.
C8_Witness ==
    /\ last.op = "index_folder" /\ last.sync /\ last.fault
    /\ last.ret = <<1, 1>>
    /\ Cardinality(db[DOC_DB_PATH].documents) = 1
    /\ remote[r2_key(basename(DOC_DB_PATH))] # db[DOC_DB_PATH]
    /\ remote[r2_key(basename(USER_DB_PATH))] = db[USER_DB_PATH]

\* What restore_from_r2 does apart from the requests it sends: files that
\* exist are kept and not fetched, every absent file gets its one
\* download_file call whatever happened to the files before it, and no
\* exception leaves the call.
RestoreFrame ==
    /\ ~last.raised
    /\ last.kept
    /\ \A f \in AllFiles :
          /\ f \in last.had => last.calls[f] = 0 /\ last.requests[f] = 0
          /\ (last.client /\ f \notin last.had) => last.calls[f] = 1

\* C9 as stated: restore_from_r2 fetches only absent files, keeps the files
\* that exist, raises nothing, goes on to the remaining files after a
\* failure, and sends no request a second time.
C9_RestoreOriginal ==
    last.op = "restore_from_r2" =>
        /\ RestoreFrame
        /\ \A f \in AllFiles : last.requests[f] <= 1

\* C9: as above, except that the client sends the request of a
\* download_file call again after a connection failure, at most
\* max_attempts times; a missing object and a refused request are answered
\* once.
C9_Restore ==
    last.op = "restore_from_r2" =>
        /\ RestoreFrame
        /\ \A f \in AllFiles :
              /\ last.requests[f] <= 1 + max_attempts
              /\ last.down[f][1] # "conn" => last.requests[f] <= 1

\* users.db exists, documents.db cannot be reached after every retry, and
\* chat.db is fetched all the same.
C9_Witness ==
    /\ last.op = "restore_from_r2" /\ last.client
    /\ last.had = {USER_DB_PATH}
    /\ last.requests[DOC_DB_PATH] = 1 + max_attempts
    /\ db[DOC_DB_PATH] = NoFile
    /\ last.calls[CHAT_DB_PATH] = 1
    /\ db[CHAT_DB_PATH] # NoFile

\* The ranked query of the call in sr raised: no FTS5 table, or a query that
\* is not MATCH syntax.
RankedRaised == ~fts5 \/ ~fts_syntax_ok(strip(sr.query))

\* The ranked query of the call in sr has no row to give: no chunk matches,
\* or the LIMIT is 0.
RankedNoRows ==
    limit(sr.top_k,
          Cardinality({f \in db[DOC_DB_PATH].chunks_fts :
                          fts_match(f.text, strip(sr.query))})) = 0

SearchCall == sr.pc = "done" /\ strip(sr.query) # <<>>

\* C11 as stated, for top_k >= 1: the substring query is run only after the
\* ranked query raised; when the ranked query completes, with rows or with
\* none, no result of the substring query is returned.
C11_FallbackOnlyOnErrorOriginal ==
    (SearchCall /\ sr.top_k >= 1 /\ ~sr.err) => sr.via # "fallback"

\* C11: the substring query is run when the ranked query raised and also
\* when it completed with no row; when the ranked query returns at least one
\* row those rows are returned and the substring query is not run.
C11_FallbackOnErrorOrNoRows ==
    SearchCall =>
        /\ sr.err = RankedRaised
        /\ sr.via = "ranked" => ~RankedRaised /\ ~RankedNoRows /\ sr.rows # <<>>
        /\ sr.via = "fallback" => RankedRaised \/ RankedNoRows
        /\ (~RankedRaised /\ ~RankedNoRows) => sr.via = "ranked"

\* The ranked query completed with no row and the substring query found one.
C11_Witness ==
    /\ SearchCall /\ fts5 /\ ~sr.err
    /\ sr.via = "fallback"
    /\ Len(sr.rows) >= 1 /\ sr.rows[1].score = 0

\* The accounts named admin in a copy of the files.
Admins(loc) == {u \in users_table(loc) : u.username = "admin"}

\* One create_user_db call: with an admin account there it leaves the
\* account as it is, without one it inserts one that expires 365 days after
\* its creation.
BootstrapStep ==
    (pc = "restored" /\ pc' = "bootstrapped") =>
        /\ Cardinality(Admins(db')) = 1
        /\ Admins(db) # {} => Admins(db') = Admins(db)
        /\ Admins(db) = {} =>
              \A u \in Admins(db') :
                  /\ u.created_at = now
                  /\ u.subscription_expires = u.created_at + 365
                  /\ u.password_hash = hash_password("admin123")
                  /\ u.active = 1

\* C12: once create_user_db has run, whatever validate_user and add_user
\* calls and further create_user_db calls follow, users.db holds exactly one
\* account named admin; a create_user_db call that finds the account leaves
\* its password hash, active flag and expiry unchanged, and one that
\* creates it sets its expiry 365 days after its creation.
C12_OneAdmin ==
    /\ [](pc \in {"bootstrapped", "ready"} => Cardinality(Admins(db)) = 1)
    /\ [][BootstrapStep]_vars

\* create_user_db run again 400 days after it created admin, admin having
\* logged in and another account having been added since.
C12_Witness ==
    /\ pc = "bootstrapped" /\ last.op = "create_user_db"
    /\ now = 400
    /\ \E u \in Admins(db) :
          u.created_at = 0 /\ u.subscription_expires = 365 /\ u.last_login # NULL
    /\ Cardinality(users_table(db)) >= 2

\* A pass of the loop of split_text that does not reach the end of the text.
SplitPass == sp.pc = "loop" /\ sp'.pc = "loop" /\ Len(sp'.parts) = Len(sp.parts) + 1

\* C13 as stated: for size >= 1 and overlap >= 0, overlap >= size included,
\* start grows on every pass that does not reach the end of the text, so a
\* call makes at most Len(text) passes and returns.
C13_StartAdvancesOriginal ==
    /\ [][SplitPass => sp'.start > sp.start]_vars
    /\ [](sp.pc = "loop" => Len(sp.parts) <= Len(sp.text))

\* A call with overlap >= size on a text longer than size, back at start 0
\* after more passes than the text has characters.
C13_Witness ==
    /\ sp.pc = "loop"
    /\ sp.overlap >= sp.size /\ Len(sp.text) > sp.size
    /\ sp.start = 0
    /\ Len(sp.parts) > Len(sp.text)

\* After a backup of the files loc that returned True, the bucket holds
\* each file of loc as it is in loc, and so no row that another copy has
\* and loc has not.
Overwritten(loc, other) ==
    /\ \A f \in AllFiles :
          loc[f] # NoFile => remote'[r2_key(basename(f))] = loc[f]
    /\ (loc[CHAT_DB_PATH] # NoFile /\ other[CHAT_DB_PATH] # NoFile) =>
          \A c \in other[CHAT_DB_PATH].conversations \ loc[CHAT_DB_PATH].conversations :
              c \notin remote'[r2_key(basename(CHAT_DB_PATH))].conversations

\* C14: a backup_to_r2 that returns True leaves in the bucket, for each
\* file the instance has, that instance's content, whatever the bucket held;
\* with two instances that wrote different rows, the bucket then holds the
\* rows of the one that backed up last and not the rows only the other has.
C14_LastWriterWins ==
    [][/\ ((\E net \in LossNets : ManualBackup(net)) /\ last'.ret = TRUE)
            => Overwritten(db, peer)
       /\ ((\E net \in LossNets : PeerBackup(net)) /\ last'.ret = TRUE)
            => Overwritten(peer, db)]_vars

\* The second instance backed up over the conversation the first had
\* uploaded: the bucket held it before and holds it no more.
C14_Witness ==
    /\ last.op = "backup_to_r2" /\ last.by = "peer" /\ last.ret = TRUE
    /\ db[CHAT_DB_PATH] # NoFile
    /\ last.before[r2_key(basename(CHAT_DB_PATH))] # NoObject
    /\ \E c \in db[CHAT_DB_PATH].conversations :
          /\ c.title = "conversa A"
          /\ c \in last.before[r2_key(basename(CHAT_DB_PATH))].conversations
          /\ c \notin remote[r2_key(basename(CHAT_DB_PATH))].conversations
    /\ \E c \in remote[r2_key(basename(CHAT_DB_PATH))].conversations : c.title = "conversa B"

\* C15 as stated: documents never holds two rows with the same path, also
\* with index_folder running in two threads at once.
C15_UniquePathOriginal ==
    \A d1, d2 \in db[DOC_DB_PATH].documents : d1.path = d2.path => d1.id = d2.id

\* Both calls have returned and documents holds the same file twice.
C15_Witness ==
    /\ \A th \in Threads : threads[th].pc = "idle"
    /\ last.op = "index_folder" /\ last.via = "ok"
    /\ \E d1, d2 \in db[DOC_DB_PATH].documents : d1.path = d2.path /\ d1.id # d2.id

\* A step that is a validate_user call: the login button pressed.
ValidateStep ==
    /\ pc = "ready" /\ pc' = "ready"
    /\ session = NoUser
    /\ now' = now
    /\ last'.op = "validate_user"

\* The row of db' with the id of u.
After(u) == CHOOSE v \in users_table(db') : v.id = u.id

\* C16: a validate_user call that returns False changes no file and starts
\* no backup; one that returns True changes nothing but last_login of the
\* account validated: every account keeps its password hash, active flag and
\* expiry, every other account its last_login.
C16_ValidateFrame ==
    [][ValidateStep =>
          IF last'.ret = TRUE
          THEN /\ {u.id : u \in users_table(db')} = {u.id : u \in users_table(db)}
               /\ Cardinality(users_table(db')) = Cardinality(users_table(db))
               /\ \A u \in users_table(db) :
                     /\ After(u) = [u EXCEPT !.last_login = After(u).last_login]
                     /\ u.username # last'.arg[1] => After(u).last_login = u.last_login
                     /\ u.username = last'.arg[1] => After(u).last_login = now
               /\ db'[DOC_DB_PATH] = db[DOC_DB_PATH] /\ db'[CHAT_DB_PATH] = db[CHAT_DB_PATH]
          ELSE /\ db' = db /\ remote' = remote
               /\ ~last'.sync /\ ~last'.touched /\ ~last'.changed]_vars

\* alice logged in 400 days after admin did: her last_login moved, admin's
\* did not.
C16_Witness ==
    /\ pc = "ready" /\ last.op = "validate_user" /\ last.ret = TRUE
    /\ last.arg[1] = "alice" /\ session = "alice"
    /\ \E u \in users_table(db) : u.username = "alice" /\ u.last_login = 400
    /\ \E u \in users_table(db) : u.username = "admin" /\ u.last_login = 0

\* C17: while the backup of an operation is in progress (from the making of
\* its client to its last upload) the operation holds no write lock on any
\* local file and its writes are in the file on disk.
C17_CommitBeforeSync ==
    (tx # NoTx /\ tx.pc = "sync") =>
        /\ tx.txn = {}
        /\ db[db_file_of(tx.op)] = tx.work

\* validate_user for admin in its upload loop: users.db, with the new
\* last_login in it, already in the bucket, the second file next.
C17_Witness ==
    /\ tx # NoTx /\ tx.pc = "sync" /\ tx.op = "validate_user" /\ tx.i = 2
    /\ \E u \in users_table(db) : u.username = "admin" /\ u.last_login = now
    /\ remote[r2_key(basename(USER_DB_PATH))] = db[USER_DB_PATH]

\* What the remote objects hold: the accounts by username, the documents by
\* path, the conversations by id.
RemoteAccounts(rem) ==
    LET o == rem[r2_key(basename(USER_DB_PATH))]
    IN  IF o = NoObject THEN {} ELSE {u.username : u \in o.users}

RemoteDocuments(rem) ==
    LET o == rem[r2_key(basename(DOC_DB_PATH))]
    IN  IF o = NoObject THEN {} ELSE {d.path : d \in o.documents}

RemoteConversations(rem) ==
    LET o == rem[r2_key(basename(CHAT_DB_PATH))]
    IN  IF o = NoObject THEN {} ELSE {c.id : c \in o.conversations}

\* C18: a startup removes nothing from the remote backup.  Of the three
\* steps of ensure_dirs_and_dbs only create_user_db writes to the bucket:
\* every account, document and conversation the remote objects hold before
\* it they hold after it.
C18_StartupKeepsRemoteOriginal ==
    [][(pc = "restored" /\ pc' = "bootstrapped") =>
          /\ RemoteAccounts(remote) \subseteq RemoteAccounts(remote')
          /\ RemoteDocuments(remote) \subseteq RemoteDocuments(remote')
          /\ RemoteConversations(remote) \subseteq RemoteConversations(remote')]_vars

\* restore_from_r2 has run with no local files, its download of users.db
\* was tried and failed, and the bucket holds the account alice:
\* create_user_db is next.
C18_Witness ==
    /\ pc = "restored"
    /\ last.op = "restore_from_r2" /\ last.client /\ last.calls[USER_DB_PATH] = 1
    /\ db[USER_DB_PATH] = NoFile
    /\ "alice" \in RemoteAccounts(remote)

\* The attempt of the log entry at place i failed with "429" in its text.
Failed429(i) ==
    pm.log[i].kind = "raise" /\ Contains(pm.log[i].text, <<"4", "2", "9">>)

\* The assistant's message of the prompt in progress or just processed.
Answered ==
    /\ Len(pm.messages) = Len(pm.before) + 2
    /\ pm.messages[Len(pm.messages)].role = "assistant"

\* C19: for one prompt agent.run is called at most 3 times; a call follows
\* another only when that one raised an error with "429" in its text and was
\* not the third; once a call raised any other error, or the third raised,
\* the call ends with the user message and no assistant message; an
\* assistant message is there only after a call returned, and stands
\* directly after the user message of the prompt.
C19_RetryAndAppend ==
    LET calls == Len(pm.log)
        base == Len(pm.before)
    IN  /\ calls <= 3
        /\ \A i \in 1..(calls - 1) : Failed429(i) /\ i < 3
        /\ SubSeq(pm.messages, 1, base) = pm.before
        /\ Len(pm.messages) \in {base, base + 1, base + 2}
        /\ (calls >= 1 /\ pm.log[calls].kind = "raise"
               /\ (~Failed429(calls) \/ calls = 3)) =>
              /\ pm.pc \in {"except", "idle"}
              /\ pm.messages = Append(pm.before, [role |-> "user", content |-> pm.prompt])
        /\ Len(pm.messages) = base + 2 =>
              /\ calls >= 1 /\ pm.log[calls].kind = "return"
              /\ pm.messages[base + 1] = [role |-> "user", content |-> pm.prompt]
              /\ pm.messages[base + 2].role = "assistant"
        /\ \A j \in 1..Len(pm.messages) :
              pm.messages[j].role = "assistant" =>
                 j > 1 /\ pm.messages[j - 1].role = "user"

\* The second prompt answered on the third call, after two 429 errors, the
\* first prompt having ended on another error.
C19_Witness ==
    /\ pm.pc = "idle" /\ pm.n = 2
    /\ Len(pm.log) = 3 /\ Failed429(1) /\ Failed429(2) /\ pm.log[3].kind = "return"
    /\ Len(pm.before) = 1
    /\ Answered

====
